---- MODULE Spec2Model ----
(***************************************************************************)
(* Model of the python-server backend: the Class Pulse generation of       *)
(* app/analytics_service.py (Pulse Trigger Gate, Insight Narrator) and the *)
(* weekly review flow of app/review_service.py.                            *)
(*                                                                         *)
(* Time is counted in ticks, TicksPerDay ticks to a calendar day.  The     *)
(* document store is modelled by the documents the code reads and writes.  *)
(***************************************************************************)
EXTENDS Integers, Sequences, FiniteSets, TLC

\* ---------------------------------------------------------------- bounds
TicksPerDay == 2
Horizon == 1
MaxOldSessions == 1
MaxRecords == 6
MaxRawInsights == 4
ReviewHorizon == 21
NumReviewItems == 3
CapHorizon == 7
CapExtraItems == 1
MaxWindowSessions == 2
MaxStruggleRecords == 3
MaxTrendSessions == 10
MaxDaysAgo == 9
MaxUsageRecords == 2
FailHorizon == 8
RaceHorizon == 15

\* ------------------------------------------------------ program constants
MIN_NEW_SESSIONS_FOR_REGEN == 3
MIN_NEW_STRUGGLES_FOR_REGEN == 5
WEEK_DAYS == 7
MONTH_DAYS == 30
TOP_STRUGGLES_LIMIT == 15
MAX_INSIGHTS == 3
TITLE_LIMIT == 50
MESSAGE_LIMIT == 200
FALLBACK_TITLE_LEN == 20
FALLBACK_MESSAGE_LEN == 87
MIN_STRUGGLES == 3
MAX_STRUGGLES == 8
REVIEW_COOLDOWN_DAYS == 7
MAX_REVIEW_COUNT == 3
MISMATCH_STRUGGLE_THRESHOLD == 3
ACTIVE_THRESHOLD == 3
WARNING_THRESHOLD == 7
DAYS_UNKNOWN == 999

\* ----------------------------------------------------------------- helpers
Min(a, b) == IF a <= b THEN a ELSE b

\* a string is written as the prefix of length len of the text named src
Text(s, n) == [src |-> s, len |-> n]

\* s[:n] of Python, for a string and for a list
Prefix(s, n) == [s EXCEPT !.len = Min(@, n)]
Take(s, n) == SubSeq(s, 1, Min(n, Len(s)))

\* the sum of f over the set S
RECURSIVE SumOver(_, _)
SumOver(f, S) ==
    IF S = {} THEN 0
    ELSE LET x == CHOOSE y \in S : TRUE IN f[x] + SumOver(f, S \ {x})

StartTime == WEEK_DAYS * TicksPerDay
MaxTime == StartTime + Horizon
\* the creation times of sessions: those on record at the start, created at
\* OldTime, and those created while the model runs
OldTime == StartTime - WEEK_DAYS * TicksPerDay
Times == {OldTime} \cup (StartTime..MaxTime)
today(t) == t \div TicksPerDay
Days == today(StartTime)..today(MaxTime)
\* enough sessions and enough distinct texts to meet either threshold
MaxSessions == MIN_NEW_SESSIONS_FOR_REGEN + MaxOldSessions
NumTexts == MIN_NEW_STRUGGLES_FOR_REGEN
Texts == 1..NumTexts
Callers == {"c1", "c2"}

VARIABLES
    now,            \* the clock, in ticks
    sessions,       \* sessions[t]: sessions on the teacher's missions created at t
    items,          \* items[x]: review items of the class with display text x
    geminiClient,   \* self._gemini is not None
    dailyInsights,  \* teachers/{teacher_id}/dailyInsights/{day}
    pc,             \* position of each generate_class_pulse call
    force,          \* the call's force argument
    ref,            \* the call's insights_ref (the day it was computed for)
    analytics,      \* the call's analytics local (line 679)
    insights,       \* the call's insights local (line 689)
    calledAI,       \* the call invoked generate_content
    result,         \* the call's return value
    response,       \* Insight Narrator alone: the generative service's answer
    narrated,       \* Insight Narrator alone: what _call_gemini_for_insights returned
    returned,       \* Insight Narrator alone: the call has returned
    clock,          \* Review Service: the current day (day 0 is a Monday)
    reviewItems,    \* users/{user_id}/reviewItems/{id}
    reviewLessons,  \* users/{user_id}/reviewLessons/week-{week_start}
    rpc,            \* position of each create_review_lesson call
    week_start,     \* the call's week_start local (line 435)
    review_items,   \* the call's review_items local (line 445), as far as
                    \* the update loop has not consumed it
    created_at,     \* the call's now local (line 458)
    review,         \* the call's return value
    store,          \* analytics request: the document store it reads
    request,        \* analytics request: endpoint and query parameters
    reply,          \* analytics request: status and body returned
    reads,          \* analytics request: the store accesses it has made
    level_struggles, \* Level Aggregator: the review items supplied, in order
    topStruggles    \* Level Aggregator: what _aggregate_struggles returned

vars == <<now, sessions, items, geminiClient, dailyInsights, pc, force, ref,
          analytics, insights, calledAI, result, response, narrated, returned,
          clock, reviewItems, reviewLessons, rpc, week_start, review_items,
          created_at, review, store, request, reply, reads,
          level_struggles, topStruggles>>

worldVars == <<now, sessions, items, geminiClient>>
callVars == <<pc, force, ref, analytics, insights, calledAI, result>>
narratorVars == <<response, narrated, returned>>
\* what no step of a pulse generation and no change of the class data touches
reviewVars == <<clock, reviewItems, reviewLessons, rpc, week_start,
                review_items, created_at, review>>
pulseVars == <<worldVars, dailyInsights, callVars>>
aggregatorVars == <<level_struggles, topStruggles>>
requestVars == <<store, request, reply, reads, aggregatorVars>>
nonPulseVars == <<narratorVars, reviewVars, requestVars>>

\* ------------------------------------------------------ Insight Narrator
InsightTypes == {"warning", "info", "success"}
RequiredKeys == {"type", "title", "message"}

\* _fallback_insights
fallback_insights ==
    << [type |-> "info", level |-> "null",
        title |-> Text("Insights Unavailable", FALLBACK_TITLE_LEN),
        message |-> Text("Unable to generate AI insights at this time.", FALLBACK_MESSAGE_LEN)] >>

\* mutant of clean_insight: title and message are not truncated
clean_insight_untruncated(raw) ==
    [type |-> IF raw.type \in InsightTypes THEN raw.type ELSE "info",
     level |-> raw.level,
     title |-> raw.title,
     message |-> raw.message]

\* the body of the validation loop for one raw insight
clean_insight(raw) ==
    [type |-> IF raw.type \in InsightTypes THEN raw.type ELSE "info",
     level |-> raw.level,
     title |-> Prefix(raw.title, TITLE_LIMIT),
     message |-> Prefix(raw.message, MESSAGE_LIMIT)]

\* the condition of the validation loop: all(k in insight for k in [...])
has_required_fields(raw) == RequiredKeys \subseteq raw.keys

RECURSIVE validate_insights(_)
validate_insights(raws) ==
    IF raws = <<>> THEN <<>>
    ELSE IF has_required_fields(Head(raws))
         THEN <<clean_insight(Head(raws))>> \o validate_insights(Tail(raws))
         ELSE validate_insights(Tail(raws))

\* slicing a title or message that is no string (null, a number) raises inside
\* the try block
slicing_raises(raws) ==
    \E i \in 1..Len(raws) : has_required_fields(raws[i]) /\ ~raws[i].textual

\* mutant of call_gemini_for_insights: an empty validated list is returned
call_gemini_returns_empty(client, resp) ==
    IF ~client THEN fallback_insights
    ELSE IF resp.kind # "json" THEN fallback_insights
    ELSE LET raws == IF resp.hasInsights THEN resp.insights ELSE <<>>
             first == Take(raws, MAX_INSIGHTS)
         IN  IF slicing_raises(first) THEN fallback_insights
             ELSE validate_insights(first)

\* _call_gemini_for_insights.  resp.kind is "error" when generate_content
\* raised, "malformed" when json.loads raised, "json" for a parsed object whose
\* 'insights' key is present iff resp.hasInsights.  An exception inside the try
\* block ends in the except branch.
call_gemini_for_insights(client, resp) ==
    IF ~client THEN fallback_insights
    ELSE IF resp.kind # "json" THEN fallback_insights
    ELSE LET raws == IF resp.hasInsights THEN resp.insights ELSE <<>>
             first == Take(raws, MAX_INSIGHTS)
         IN  IF slicing_raises(first) THEN fallback_insights
             ELSE LET valid_insights == validate_insights(first)
                  IN  IF valid_insights # <<>> THEN valid_insights
                      ELSE fallback_insights

RawInsight(ks, ty, tl, ml, tx) ==
    [keys |-> ks, type |-> ty, level |-> "B1", title |-> Text("title", tl),
     message |-> Text("message", ml), textual |-> tx]

\* the responses of the generative service a pulse generation may receive
PulseResponses ==
    { [kind |-> "error", hasInsights |-> FALSE, insights |-> <<>>],
      [kind |-> "malformed", hasInsights |-> FALSE, insights |-> <<>>],
      [kind |-> "json", hasInsights |-> FALSE, insights |-> <<>>],
      [kind |-> "json", hasInsights |-> TRUE,
       insights |-> << RawInsight(RequiredKeys, "danger", 2, 3, TRUE) >>] }

\* ------------------------------------------------------------- analytics
\* _get_time_range
get_time_range(period, t) ==
    [start |-> IF period = "week" THEN t - WEEK_DAYS * TicksPerDay
               ELSE IF period = "month" THEN t - MONTH_DAYS * TicksPerDay
               ELSE 0,
     end |-> t]

\* _query_sessions: the number of sessions with start <= createdAt <= end
query_sessions(sess, start_time, end_time) ==
    SumOver(sess, {t \in DOMAIN sess : start_time <= t /\ t <= end_time})

\* _aggregate_struggles: the number of entries of the returned list
aggregate_struggles(its) ==
    Min(Cardinality({x \in DOMAIN its : its[x] > 0}), TOP_STRUGGLES_LIMIT)

\* get_teacher_analytics(teacher_id, "week", "all"): totals.sessionCount and
\* the summed length of the levels' topStruggles
get_teacher_analytics(sess, its, t) ==
    LET range == get_time_range("week", t)
        n == query_sessions(sess, range.start, range.end)
    IN  [sessionCount |-> n,
         totalStruggles |-> IF n = 0 THEN 0 ELSE aggregate_struggles(its)]

\* ------------------------------------------------------ Pulse Trigger Gate
NoSnapshot == [totalSessions |-> 0, totalStruggles |-> 0, lastGeneratedAt |-> 0]
NoDoc == [exists |-> FALSE, insights |-> <<>>, generatedAt |-> 0,
          stillValidAt |-> 0, dataSnapshot |-> NoSnapshot]

\* mutant of thresholds_met: the thresholds compared strictly
thresholds_met_strict(last_sessions, last_struggles, current_sessions, current_struggles) ==
    \/ current_sessions - last_sessions > MIN_NEW_SESSIONS_FOR_REGEN
    \/ current_struggles - last_struggles > MIN_NEW_STRUGGLES_FOR_REGEN

\* the threshold comparison of _should_regenerate_insights
thresholds_met(last_sessions, last_struggles, current_sessions, current_struggles) ==
    LET new_sessions == current_sessions - last_sessions
        new_struggles == current_struggles - last_struggles
    IN  \/ new_sessions >= MIN_NEW_SESSIONS_FOR_REGEN
        \/ new_struggles >= MIN_NEW_STRUGGLES_FOR_REGEN

\* mutant of should_regenerate_insights: a missing snapshot read as zeros
should_regenerate_missing_as_zero(existing, current) ==
    thresholds_met(existing.dataSnapshot.totalSessions,
                   existing.dataSnapshot.totalStruggles,
                   current.sessionCount, current.totalStruggles)

\* _should_regenerate_insights
should_regenerate_insights(existing, current) ==
    IF ~existing.exists THEN TRUE
    ELSE thresholds_met(existing.dataSnapshot.totalSessions,
                        existing.dataSnapshot.totalStruggles,
                        current.sessionCount, current.totalStruggles)

NoAnalytics == [sessionCount |-> 0, totalStruggles |-> 0]
NoResult == [kind |-> "none", insights |-> <<>>, isNew |-> FALSE]

\* _empty_pulse_response
empty_pulse_response == [kind |-> "empty", insights |-> <<>>, isNew |-> FALSE]

\* the locals of a call are gone when it returns
ReturnLocals(c) ==
    /\ force' = [force EXCEPT ![c] = FALSE]
    /\ ref' = [ref EXCEPT ![c] = today(StartTime)]
    /\ analytics' = [analytics EXCEPT ![c] = NoAnalytics]
    /\ insights' = [insights EXCEPT ![c] = <<>>]

\* mutant of entry_pc: force is ignored
entry_pc_ignores_force(f) == "gate"

\* generate_class_pulse, line 664: force skips the gate
entry_pc(f) == IF f THEN "analytics" ELSE "gate"

\* mutant of update_still_valid: the skip path restamps generatedAt as well
update_still_valid_restamps(doc, t) == [doc EXCEPT !.stillValidAt = t, !.generatedAt = t]

\* generate_class_pulse, line 671: insights_ref.update({'stillValidAt': now})
update_still_valid(doc, t) == [doc EXCEPT !.stillValidAt = t]

\* mutant of set_document: a merging write that keeps the first generatedAt
set_document_merges(old, new) ==
    IF old.exists THEN [new EXCEPT !.generatedAt = old.generatedAt] ELSE new

\* generate_class_pulse, line 706: insights_ref.set(pulse_data) replaces the
\* whole document
set_document(old, new) == new

\* generate_class_pulse, lines 658-664: entry
generate_class_pulse(c, f) ==
    /\ pc[c] \in {"idle", "done"}
    /\ pc' = [pc EXCEPT ![c] = entry_pc(f)]
    /\ force' = [force EXCEPT ![c] = f]
    /\ ref' = [ref EXCEPT ![c] = today(now)]
    /\ analytics' = [analytics EXCEPT ![c] = NoAnalytics]
    /\ insights' = [insights EXCEPT ![c] = <<>>]
    /\ calledAI' = [calledAI EXCEPT ![c] = FALSE]
    /\ result' = [result EXCEPT ![c] = NoResult]
    /\ UNCHANGED <<worldVars, dailyInsights>>
    /\ UNCHANGED nonPulseVars

\* generate_class_pulse, line 665: the gate reads the snapshot and the totals
pulse_gate(c) ==
    /\ pc[c] = "gate"
    /\ LET existing == dailyInsights[ref[c]]
           current == get_teacher_analytics(sessions, items, now)
       IN  pc' = [pc EXCEPT ![c] =
                     IF should_regenerate_insights(existing, current)
                     THEN "analytics" ELSE "skip"]
    /\ UNCHANGED <<worldVars, dailyInsights, force, ref, analytics, insights,
                   calledAI, result>>
    /\ UNCHANGED nonPulseVars

\* generate_class_pulse, lines 666-676: the gate said no
pulse_skip(c) ==
    /\ pc[c] = "skip"
    /\ LET existing == dailyInsights[ref[c]]
       IN  IF existing.exists
           THEN /\ dailyInsights' = [dailyInsights EXCEPT ![ref[c]] =
                                        update_still_valid(existing, now)]
                /\ result' = [result EXCEPT ![c] =
                       [kind |-> "skipped", insights |-> existing.insights,
                        isNew |-> FALSE]]
           ELSE /\ result' = [result EXCEPT ![c] = empty_pulse_response]
                /\ UNCHANGED dailyInsights
    /\ pc' = [pc EXCEPT ![c] = "done"]
    /\ ReturnLocals(c)
    /\ UNCHANGED <<worldVars, calledAI>>
    /\ UNCHANGED nonPulseVars

\* generate_class_pulse, lines 679-683: the analytics for the prompt
pulse_analytics(c) ==
    /\ pc[c] = "analytics"
    /\ LET a == get_teacher_analytics(sessions, items, now)
       IN  IF a.sessionCount = 0
           THEN /\ result' = [result EXCEPT ![c] = empty_pulse_response]
                /\ pc' = [pc EXCEPT ![c] = "done"]
                /\ ReturnLocals(c)
           ELSE /\ analytics' = [analytics EXCEPT ![c] = a]
                /\ pc' = [pc EXCEPT ![c] = "gemini"]
                /\ UNCHANGED <<result, force, ref, insights>>
    /\ UNCHANGED <<worldVars, dailyInsights, calledAI>>
    /\ UNCHANGED nonPulseVars

\* generate_class_pulse, lines 686-689: the Insight Narrator
pulse_gemini(c) ==
    /\ pc[c] = "gemini"
    /\ \E r \in PulseResponses :
          insights' = [insights EXCEPT ![c] =
                          call_gemini_for_insights(geminiClient, r)]
    /\ calledAI' = [calledAI EXCEPT ![c] = geminiClient]
    /\ pc' = [pc EXCEPT ![c] = "save"]
    /\ UNCHANGED <<worldVars, dailyInsights, force, ref, analytics, result>>
    /\ UNCHANGED nonPulseVars

\* mutant of pulse_data: the fallback is stored without the totals
pulse_data_fallback_without_totals(ins, a, t) ==
    [exists |-> TRUE, insights |-> ins, generatedAt |-> t, stillValidAt |-> t,
     dataSnapshot |-> IF ins = fallback_insights
                      THEN [NoSnapshot EXCEPT !.lastGeneratedAt = t]
                      ELSE [totalSessions |-> a.sessionCount,
                            totalStruggles |-> a.totalStruggles,
                            lastGeneratedAt |-> t]]

\* the document generate_class_pulse writes (lines 692-705)
pulse_data(ins, a, t) ==
    [exists |-> TRUE, insights |-> ins, generatedAt |-> t, stillValidAt |-> t,
     dataSnapshot |-> [totalSessions |-> a.sessionCount,
                       totalStruggles |-> a.totalStruggles,
                       lastGeneratedAt |-> t]]

\* generate_class_pulse, lines 692-715: insights_ref.set and the return
pulse_save(c) ==
    /\ pc[c] = "save"
    /\ dailyInsights' = [dailyInsights EXCEPT ![ref[c]] =
                            set_document(@, pulse_data(insights[c], analytics[c], now))]
    /\ result' = [result EXCEPT ![c] =
                     [kind |-> "new", insights |-> insights[c], isNew |-> TRUE]]
    /\ pc' = [pc EXCEPT ![c] = "done"]
    /\ ReturnLocals(c)
    /\ UNCHANGED <<worldVars, calledAI>>
    /\ UNCHANGED nonPulseVars

\* -------------------------------------------------------- the environment
TotalSessions == SumOver(sessions, DOMAIN sessions)
TotalItems == SumOver(items, DOMAIN items)

\* time passes
Tick ==
    /\ now < MaxTime
    /\ now' = now + 1
    /\ UNCHANGED <<sessions, items, geminiClient, dailyInsights, callVars>>
    /\ UNCHANGED nonPulseVars

\* a student completes a session on one of the teacher's missions
AddSession ==
    /\ TotalSessions < MaxSessions
    /\ TotalSessions + TotalItems < MaxRecords
    /\ sessions' = [sessions EXCEPT ![now] = @ + 1]
    /\ UNCHANGED <<now, items, geminiClient, dailyInsights, callVars>>
    /\ UNCHANGED nonPulseVars

\* a review item with display text x is recorded; texts are first used in
\* index order (they are interchangeable)
AddItem(x) ==
    /\ TotalItems < NumTexts
    /\ TotalSessions + TotalItems < MaxRecords
    /\ IF x = 1 THEN TRUE ELSE items[x - 1] > 0
    /\ items' = [items EXCEPT ![x] = @ + 1]
    /\ UNCHANGED <<now, sessions, geminiClient, dailyInsights, callVars>>
    /\ UNCHANGED nonPulseVars

\* --------------------------------------------------------- Review Service
ReviewCallers == {"r1", "r2"}
ItemIds == 1..NumReviewItems
ReviewDays == 0..ReviewHorizon
\* the raw severities stored on review items; 0 stands for a missing one
Severities == {0, 8}

\* _get_week_start: the Monday of the day's week
get_week_start(d) == d - (d % 7)

Weeks == {get_week_start(d) : d \in ReviewDays}

NoItem ==
    [exists |-> FALSE, severity |-> 0, reviewCount |-> 0, mastered |-> FALSE,
     lastReviewedAt |-> <<>>, includedInReviews |-> {}]

NoLesson == [exists |-> FALSE, targetStruggles |-> <<>>, createdAt |-> 0]

\* mutant of cooling_down: no item is ever held back by the cooldown
cooling_down_never(data, t) == FALSE

\* lines 217-230: the item was reviewed within the last 7 days
cooling_down(data, t) ==
    /\ data.lastReviewedAt # <<>>
    /\ data.lastReviewedAt[1] > t - REVIEW_COOLDOWN_DAYS

\* lines 233-240
int_severity(raw_severity) == IF raw_severity # 0 THEN raw_severity ELSE 5

\* the loop body of get_eligible_review_items: the document is kept
is_eligible(data, t) ==
    /\ ~(data.reviewCount >= MAX_REVIEW_COUNT)
    /\ ~cooling_down(data, t)

\* sort key (-severity, review_count); the sort is stable and the documents
\* stream in id order
sorts_before(a, b) ==
    \/ a.severity > b.severity
    \/ a.severity = b.severity /\ a.review_count < b.review_count
    \/ a.severity = b.severity /\ a.review_count = b.review_count /\ a.id < b.id

\* mutant of get_eligible_review_items: the sorted list is returned whole
get_eligible_uncapped(its, t) ==
    LET docs == SelectSeq([i \in DOMAIN its |-> i],
                          LAMBDA i : its[i].exists /\ its[i].mastered = FALSE)
        kept == SelectSeq(docs, LAMBDA i : is_eligible(its[i], t))
        eligible == [k \in 1..Len(kept) |->
                        [id |-> kept[k],
                         severity |-> int_severity(its[kept[k]].severity),
                         review_count |-> its[kept[k]].reviewCount]]
    IN  SortSeq(eligible, sorts_before)

get_eligible_review_items(its, t) ==
    LET docs == SelectSeq([i \in DOMAIN its |-> i],
                          LAMBDA i : its[i].exists /\ its[i].mastered = FALSE)
        kept == SelectSeq(docs, LAMBDA i : is_eligible(its[i], t))
        eligible == [k \in 1..Len(kept) |->
                        [id |-> kept[k],
                         severity |-> int_severity(its[kept[k]].severity),
                         review_count |-> its[kept[k]].reviewCount]]
    IN  Take(SortSeq(eligible, sorts_before), MAX_STRUGGLES)

\* mutant of reaches_mastery: the second review already masters the item
reaches_mastery_early(new_review_count) ==
    new_review_count >= MAX_REVIEW_COUNT - 1

\* line 504
reaches_mastery(new_review_count) == new_review_count >= MAX_REVIEW_COUNT

\* mutant of item_update: the mastered flag is left to a later write
item_update_without_mastered(data, item, review_id, t) ==
    [data EXCEPT !.reviewCount = item.review_count + 1,
                 !.lastReviewedAt = <<t>>,
                 !.includedInReviews = @ \cup {review_id}]

\* mutant of item_update: the stored count is incremented in place
item_update_increments(data, item, review_id, t) ==
    [data EXCEPT !.reviewCount = @ + 1,
                 !.lastReviewedAt = <<t>>,
                 !.includedInReviews = @ \cup {review_id},
                 !.mastered = IF reaches_mastery(data.reviewCount + 1)
                              THEN TRUE ELSE @]

\* lines 497-506: item_ref.update(update_data)
item_update(data, item, review_id, t) ==
    LET new_review_count == item.review_count + 1
    IN  [data EXCEPT !.reviewCount = new_review_count,
                     !.lastReviewedAt = <<t>>,
                     !.includedInReviews = @ \cup {review_id},
                     !.mastered = IF reaches_mastery(new_review_count)
                                  THEN TRUE ELSE @]

NoReview == [kind |-> "none", struggleCount |-> 0]

\* lines 434-442: the call starts; a lesson of this week ends it
create_review_lesson(c) ==
    /\ rpc[c] \in {"idle", "done"}
    /\ week_start' = [week_start EXCEPT ![c] = get_week_start(clock)]
    /\ IF reviewLessons[get_week_start(clock)].exists
       THEN /\ rpc' = [rpc EXCEPT ![c] = "done"]
            /\ review' = [review EXCEPT ![c] =
                             [kind |-> "exists", struggleCount |-> 0]]
       ELSE /\ rpc' = [rpc EXCEPT ![c] = "select"]
            /\ review' = [review EXCEPT ![c] = NoReview]
    /\ UNCHANGED <<clock, reviewItems, reviewLessons, review_items, created_at>>
    /\ UNCHANGED <<pulseVars, narratorVars, requestVars>>

\* lines 445-449
review_select(c) ==
    /\ rpc[c] = "select"
    /\ LET eligible == get_eligible_review_items(reviewItems, clock)
       IN  IF Len(eligible) < MIN_STRUGGLES
           THEN /\ rpc' = [rpc EXCEPT ![c] = "done"]
                /\ review' = [review EXCEPT ![c] =
                                 [kind |-> "insufficient", struggleCount |-> 0]]
                /\ UNCHANGED review_items
           ELSE /\ rpc' = [rpc EXCEPT ![c] = "lesson"]
                /\ review_items' = [review_items EXCEPT ![c] = eligible]
                /\ UNCHANGED review
    /\ UNCHANGED <<clock, reviewItems, reviewLessons, week_start, created_at>>
    /\ UNCHANGED <<pulseVars, narratorVars, requestVars>>

\* lines 458-492: existing_ref.set(review_data)
review_set_lesson(c) ==
    /\ rpc[c] = "lesson"
    /\ created_at' = [created_at EXCEPT ![c] = clock]
    /\ reviewLessons' = [reviewLessons EXCEPT ![week_start[c]] =
          [exists |-> TRUE,
           targetStruggles |-> [k \in 1..Len(review_items[c]) |->
                                   review_items[c][k].id],
           createdAt |-> clock]]
    /\ review' = [review EXCEPT ![c] =
                     [kind |-> "created",
                      struggleCount |-> Len(review_items[c])]]
    /\ rpc' = [rpc EXCEPT ![c] = "update"]
    /\ UNCHANGED <<clock, reviewItems, week_start, review_items>>
    /\ UNCHANGED <<pulseVars, narratorVars, requestVars>>

\* lines 495-509: one turn of the update loop, and the return after the last
review_update_item(c) ==
    /\ rpc[c] = "update"
    /\ LET item == Head(review_items[c])
       IN  reviewItems' = [reviewItems EXCEPT ![item.id] =
              item_update(@, item, week_start[c], created_at[c])]
    /\ review_items' = [review_items EXCEPT ![c] = Tail(@)]
    /\ IF Tail(review_items[c]) = <<>>
       THEN rpc' = [rpc EXCEPT ![c] = "done"]
       ELSE UNCHANGED rpc
    /\ UNCHANGED <<clock, reviewLessons, week_start, created_at, review>>
    /\ UNCHANGED <<pulseVars, narratorVars, requestVars>>

\* lines 495-506: item_ref.update raises (the store is unreachable, the
\* document is gone); nothing in create_review_lesson catches it, so the call
\* ends with the lesson stored and the remaining items untouched
review_update_fails(c) ==
    /\ rpc[c] = "update"
    /\ rpc' = [rpc EXCEPT ![c] = "done"]
    /\ review' = [review EXCEPT ![c] = [kind |-> "raised", struggleCount |-> 0]]
    /\ review_items' = [review_items EXCEPT ![c] = <<>>]
    /\ UNCHANGED <<clock, reviewItems, reviewLessons, week_start, created_at>>
    /\ UNCHANGED <<pulseVars, narratorVars, requestVars>>

\* a day passes
ReviewTick ==
    /\ clock < ReviewHorizon
    /\ clock' = clock + 1
    /\ UNCHANGED <<reviewItems, reviewLessons, rpc, week_start, review_items,
                   created_at, review>>
    /\ UNCHANGED <<pulseVars, narratorVars, requestVars>>

\* a tutoring session records a new review item (mastered false, no reviews)
AddReviewItem(i, sev) ==
    /\ ~reviewItems[i].exists
    /\ IF i = 1 THEN TRUE ELSE reviewItems[i - 1].exists
    /\ reviewItems' = [reviewItems EXCEPT ![i] =
          [NoItem EXCEPT !.exists = TRUE, !.severity = sev]]
    /\ UNCHANGED <<clock, reviewLessons, rpc, week_start, review_items,
                   created_at, review>>
    /\ UNCHANGED <<pulseVars, narratorVars, requestVars>>

InitReviewIdle ==
    /\ clock = 0
    /\ reviewItems = [i \in ItemIds |-> NoItem]
    /\ reviewLessons = [w \in Weeks |-> NoLesson]
    /\ rpc = [c \in ReviewCallers |-> "idle"]
    /\ week_start = [c \in ReviewCallers |-> 0]
    /\ review_items = [c \in ReviewCallers |-> <<>>]
    /\ created_at = [c \in ReviewCallers |-> 0]
    /\ review = [c \in ReviewCallers |-> NoReview]

\* ------------------------------------------------------ analytics requests
CEFR_LEVELS == {"A1", "A2", "B1", "B2", "C1", "C2"}

\* store.missions, store.sessions, store.summaries, store.items, store.usage
\* are sets of documents; store.users maps a user id to its document;
\* store.failing holds the pairs user, collection whose read raises
EmptyStore ==
    [missions |-> {}, sessions |-> {}, users |-> <<>>, summaries |-> {},
     items |-> {}, usage |-> {}, failing |-> {}]

NoRequest == [endpoint |-> "none", teacherId |-> "", period |-> "", level |-> ""]
NoPrevious == [none |-> TRUE, start |-> 0, end |-> 0]
NoReply ==
    [status |-> 0, body |-> <<>>,
     windows |-> [start |-> 0, end |-> 0, prev |-> NoPrevious],
     sessions |-> {}, prev_sessions |-> {}]

NotAggregated == [done |-> FALSE, list |-> <<>>]

InitRequestIdle ==
    /\ store = EmptyStore
    /\ request = NoRequest
    /\ reply = NoReply
    /\ reads = {}
    /\ level_struggles = <<>>
    /\ topStruggles = NotAggregated

\* the previous window is always a week long
get_previous_period_week(period, current_start) ==
    IF period = "all-time" THEN [none |-> TRUE, start |-> 0, end |-> 0]
    ELSE [none |-> FALSE,
          start |-> current_start - WEEK_DAYS * TicksPerDay,
          end |-> current_start]

\* _get_previous_period; none stands for the pair (None, None)
get_previous_period(period, current_start) ==
    IF period = "all-time" THEN [none |-> TRUE, start |-> 0, end |-> 0]
    ELSE LET delta == IF period = "week" THEN WEEK_DAYS * TicksPerDay
                      ELSE MONTH_DAYS * TicksPerDay
         IN  [none |-> FALSE, start |-> current_start - delta,
              end |-> current_start]

\* _query_missions
query_missions(st, teacher_id, level) ==
    {m \in st.missions :
        /\ m.teacherId = teacher_id
        /\ level # "all" => m.targetLevel = level}

\* _query_sessions: the documents of the missions with
\* start_time <= createdAt <= end_time
query_session_docs(st, mission_ids, start_time, end_time) ==
    {x \in st.sessions :
        /\ x.missionId \in mission_ids
        /\ x.createdAt >= start_time
        /\ x.createdAt <= end_time}

\* _query_session_summaries for one user
query_session_summaries(st, user_id, start_time, end_time) ==
    {x \in st.summaries :
        /\ x.userId = user_id
        /\ x.createdAt >= start_time
        /\ x.createdAt <= end_time}

\* round(num / den) to the nearest integer, halves to the even one, as the
\* format specifications .0f and .1f do; num >= 0, den > 0
round_half_even(num, den) ==
    LET q == num \div den
        r == num % den
    IN  IF 2 * r < den THEN q
        ELSE IF 2 * r > den THEN q + 1
        ELSE IF q % 2 = 0 THEN q ELSE q + 1

Abs(n) == IF n < 0 THEN -n ELSE n

\* a rendered number: sign, digits before and after the point, suffix
Rendered(sg, ds, sf) == [sign |-> sg, digits |-> ds, suffix |-> sf]

\* the percentage is cut off, not rounded
sessions_trend_truncated(curr_sessions, prev_sessions) ==
    IF prev_sessions > 0
    THEN LET num == (curr_sessions - prev_sessions) * 100
         IN  Rendered(IF num >= 0 THEN "+" ELSE "-",
                      <<Abs(num) \div prev_sessions>>, "%")
    ELSE IF curr_sessions > 0 THEN Rendered("+", <<100>>, "%")
    ELSE Rendered("", <<0>>, "%")

\* lines 318-322
sessions_trend(curr_sessions, prev_sessions) ==
    IF prev_sessions > 0
    THEN LET num == (curr_sessions - prev_sessions) * 100
         IN  Rendered(IF num >= 0 THEN "+" ELSE "-",
                      <<round_half_even(Abs(num), prev_sessions)>>, "%")
    ELSE IF curr_sessions > 0 THEN Rendered("+", <<100>>, "%")
    ELSE Rendered("", <<0>>, "%")

\* an average of stars is kept as the pair sum, count; count 0 is the value 0
Avg(sm, n) == [sum |-> sm, n |-> n]
is_positive(avg) == avg.n > 0 /\ avg.sum > 0

\* {x:.1f} of the non-negative value num / den
format_1f(num, den) ==
    LET tenths == round_half_even(num * 10, den)
    IN  <<tenths \div 10, tenths % 10>>

\* lines 324-328
stars_trend(curr_stars, prev_stars) ==
    IF is_positive(prev_stars)
    THEN LET cn == IF curr_stars.n = 0 THEN 1 ELSE curr_stars.n
             cs == IF curr_stars.n = 0 THEN 0 ELSE curr_stars.sum
             num == cs * prev_stars.n - prev_stars.sum * cn
             den == cn * prev_stars.n
         IN  Rendered(IF num >= 0 THEN "+" ELSE "-",
                      format_1f(Abs(num), den), "")
    ELSE IF is_positive(curr_stars)
         THEN Rendered("+", format_1f(curr_stars.sum, curr_stars.n), "")
         ELSE Rendered("", <<0>>, "")

\* _calculate_trends
calculate_trends(curr_sessions, prev_sessions, curr_stars, prev_stars) ==
    [sessions |-> sessions_trend(curr_sessions, prev_sessions),
     avgStars |-> stars_trend(curr_stars, prev_stars)]

\* the per-user collections a request reads
PerUserReads == <<"users", "sessionSummaries", "reviewItems">>

\* a read of collection col for user u raises
read_fails(st, u, col) == <<u, col>> \in st.failing

\* users.get(uid, {}).get('level', 'B1') over the documents _query_users found
user_level(st, uid) ==
    IF uid \in DOMAIN st.users /\ st.users[uid].exists
    THEN st.users[uid].level ELSE "B1"

\* summaries without stars count in the denominator
star_avg_over_all(summaries) ==
    Avg(SumOver([x \in summaries |-> x.stars], summaries),
        Cardinality(summaries))

\* the stars that count: s.get('stars') is truthy
star_avg(summaries) ==
    LET rated == {x \in summaries : x.stars # 0}
    IN  Avg(SumOver([x \in rated |-> x.stars], rated), Cardinality(rated))

\* _query_struggles
query_struggles(st, user_ids, start_time, end_time) ==
    {x \in st.items :
        /\ x.userId \in user_ids
        /\ x.createdAt >= start_time
        /\ x.createdAt <= end_time}

\* data.get('inputTokens', 0) and data.get('outputTokens', 0)
input_tokens(x) == IF "inputTokens" \in DOMAIN x THEN x.inputTokens ELSE 0
output_tokens(x) == IF "outputTokens" \in DOMAIN x THEN x.outputTokens ELSE 0

\* the usage records of a user with start_time <= startTime <= end_time
usage_in_window(docs, u, start_time, end_time) ==
    {x \in docs :
        /\ x.userId = u
        /\ x.startTime >= start_time
        /\ x.startTime <= end_time}

\* the root tokenUsage collection; a store without it holds no such record
token_usage(st) == IF "tokenUsage" \in DOMAIN st THEN st.tokenUsage ELSE {}

\* both locations are summed
user_usage_from_both(st, u, start_time, end_time) ==
    LET used == usage_in_window(st.usage, u, start_time, end_time)
                \cup usage_in_window(token_usage(st), u, start_time, end_time)
    IN  [userId |-> u,
         inputTokens |-> SumOver([x \in used |-> input_tokens(x)], used),
         outputTokens |-> SumOver([x \in used |-> output_tokens(x)], used),
         sessionCount |-> Cardinality(used)]

\* lines 498-529: the records of users/{userId}/sessions, and those of the
\* root tokenUsage collection when there is none
user_usage(st, u, start_time, end_time) ==
    LET new == usage_in_window(st.usage, u, start_time, end_time)
        used == IF new # {} THEN new
                ELSE usage_in_window(token_usage(st), u, start_time, end_time)
    IN  [userId |-> u,
         inputTokens |-> SumOver([x \in used |-> input_tokens(x)], used),
         outputTokens |-> SumOver([x \in used |-> output_tokens(x)], used),
         sessionCount |-> Cardinality(used)]

\* the student_costs list of _aggregate_costs: a read error for one user is
\* caught and that user is skipped (lines 496-547)
student_costs(st, user_ids, start_time, end_time) ==
    {s \in {user_usage(st, u, start_time, end_time) :
                u \in {v \in user_ids : ~read_fails(st, v, "usage")}} :
        s.sessionCount > 0 \/ s.inputTokens > 0 \/ s.outputTokens > 0}

\* the costs summary of _aggregate_costs (lines 533-534, 553-575)
costs_summary(listed) ==
    [inputTokens |-> SumOver([s \in listed |-> s.inputTokens], listed),
     outputTokens |-> SumOver([s \in listed |-> s.outputTokens], listed),
     students |-> Cardinality({s \in listed :
                                  s.inputTokens > 0 \/ s.outputTokens > 0})]

\* _detect_cross_level_insights: the users it names, those with at least
\* MISMATCH_STRUGGLE_THRESHOLD struggles of which two are significant
level_mismatches(struggles) ==
    {u \in {x.userId : x \in struggles} :
        /\ Cardinality({x \in struggles : x.userId = u})
              >= MISMATCH_STRUGGLE_THRESHOLD
        /\ Cardinality({x \in struggles :
                            x.userId = u /\ x.significant}) >= 2}

\* s.get('word', '')
word_of(x) == IF "word" \in DOMAIN x THEN x.word ELSE ""

\* lines 611-626 of _detect_cross_level_insights: the words met at two levels
\* or more; the entries are kept as a set, which is the whole list as long as
\* there are at most UNIVERSAL_LIMIT of them
universal_struggles(st, struggles) ==
    LET levels(word) == {user_level(st, x.userId) :
                            x \in {y \in struggles : word_of(y) = word}}
    IN  {[text |-> word,
          affectedLevels |-> levels(word),
          totalCount |-> Cardinality({x \in struggles : word_of(x) = word})] :
            word \in {w \in {word_of(x) : x \in struggles} :
                         w # "" /\ Cardinality(levels(w)) >= 2}}

\* the status of a student whose last session was days days ago, with the
\* first threshold excluded
status_of_days_strict(days) ==
    IF days < ACTIVE_THRESHOLD THEN "active"
    ELSE IF days <= WARNING_THRESHOLD THEN "warning" ELSE "inactive"

\* line 408
status_of_days(days) ==
    IF days <= ACTIVE_THRESHOLD THEN "active"
    ELSE IF days <= WARNING_THRESHOLD THEN "warning" ELSE "inactive"

\* lines 397-408 of _aggregate_students: the clock is read by the method
\* itself; (now - last_dt).days is the floor of the difference in days
activity_status(st, uid) ==
    LET user == IF uid \in DOMAIN st.users /\ st.users[uid].exists
                THEN st.users[uid] ELSE <<>>
        days == IF "lastSessionAt" \in DOMAIN user
                THEN (now - user.lastSessionAt) \div TicksPerDay
                ELSE DAYS_UNKNOWN
    IN  status_of_days(days)

\* _aggregate_by_level: the block of every level that has sessions
aggregate_by_level(st, ss, prev_ss, sums, prev_sums, struggles) ==
    LET target_level(x) ==
            (CHOOSE m \in st.missions : m.id = x.missionId).targetLevel
        of_level(docs, l) == {x \in docs : user_level(st, x.userId) = l}
        present == {l \in CEFR_LEVELS :
                        \E x \in ss : target_level(x) = l}
    IN  [l \in present |->
            LET data_sessions == {x \in ss : target_level(x) = l}
                data_prev == {x \in prev_ss : target_level(x) = l}
                data_users == {x.userId : x \in data_sessions}
                avg_stars == star_avg(of_level(sums, l))
                prev_avg_stars == star_avg(of_level(prev_sums, l))
            IN  [studentCount |-> Cardinality(data_users),
                 sessionCount |-> Cardinality(data_sessions),
                 avgStars |-> avg_stars,
                 trends |-> calculate_trends(Cardinality(data_sessions),
                                             Cardinality(data_prev),
                                             avg_stars, prev_avg_stars),
                 students |-> data_users,
                 activityStatus |-> [u \in data_users |->
                                        activity_status(st, u)],
                 struggleCount |-> Cardinality(of_level(struggles, l))]]

\* _calculate_totals
calculate_totals(by_level) ==
    [studentCount |-> SumOver([l \in DOMAIN by_level |->
                                    by_level[l].studentCount], DOMAIN by_level),
     sessionCount |-> SumOver([l \in DOMAIN by_level |->
                                    by_level[l].sessionCount], DOMAIN by_level)]

\* _empty_response
empty_response(period, t) ==
    [period |-> period,
     generatedAt |-> t,
     byLevel |-> <<>>,
     totals |-> [studentCount |-> 0, sessionCount |-> 0],
     crossLevelInsights |-> [levelMismatches |-> {},
                             universalStruggles |-> {}]]

\* AnalyticsService.get_teacher_analytics with its reads of the store:
\* raised tells that a read error left the method as an exception
teacher_analytics_response(st, teacher_id, period, level, t) ==
    LET range == get_time_range(period, t)
        prev == get_previous_period(period, range.start)
        mission_ids == {m.id : m \in query_missions(st, teacher_id, level)}
        sessions_ == query_session_docs(st, mission_ids, range.start, range.end)
        prev_sessions_ ==
            IF prev.none THEN {}
            ELSE query_session_docs(st, mission_ids, prev.start, prev.end)
        user_ids == {x.userId : x \in sessions_}
        summaries_ == UNION {query_session_summaries(st, u, range.start,
                                                     range.end) : u \in user_ids}
        prev_summaries_ ==
            IF prev.none THEN {}
            ELSE UNION {query_session_summaries(st, u, prev.start, prev.end) :
                            u \in user_ids}
        struggles == query_struggles(st, user_ids, range.start, range.end)
        by_level == aggregate_by_level(st, sessions_, prev_sessions_,
                                       summaries_, prev_summaries_, struggles)
        failed == {i \in 1..Len(PerUserReads) :
                      \E u \in user_ids : read_fails(st, u, PerUserReads[i])}
        first_failed == CHOOSE i \in failed : \A j \in failed : i <= j
        done_reads == IF failed = {} THEN Len(PerUserReads) ELSE first_failed
        previous_tag(tag) == IF prev.none THEN {} ELSE {tag}
        legacy_read ==
            \E u \in user_ids :
                /\ ~read_fails(st, u, "usage")
                /\ usage_in_window(st.usage, u, range.start, range.end) = {}
        base == [windows |-> [start |-> range.start, end |-> range.end,
                              prev |-> prev],
                 sessions |-> sessions_,
                 prev_sessions |-> prev_sessions_]
    IN  IF mission_ids = {}
        THEN [raised |-> FALSE, body |-> empty_response(period, t),
              reads |-> {"missions"},
              windows |-> base.windows, sessions |-> {}, prev_sessions |-> {}]
        ELSE [raised |-> failed # {},
              body |->
                  IF failed # {} THEN <<>>
                  ELSE [period |-> period,
                        generatedAt |-> t,
                        byLevel |-> by_level,
                        totals |-> calculate_totals(by_level),
                        crossLevelInsights |->
                            [levelMismatches |-> level_mismatches(struggles),
                             universalStruggles |->
                                 universal_struggles(st, struggles)],
                        costs |-> costs_summary(student_costs(st, user_ids,
                                            range.start, range.end)),
                        studentCosts |-> student_costs(st, user_ids,
                                            range.start, range.end)],
              reads |->
                  {"missions", "sessions"} \cup previous_tag("prev_sessions")
                  \cup (IF user_ids = {} THEN {}
                        ELSE {PerUserReads[i] : i \in 1..done_reads}
                             \cup (IF done_reads >= 2
                                   THEN previous_tag("prev_sessionSummaries")
                                   ELSE {})
                             \cup (IF failed = {} THEN {"usage"} ELSE {})
                             \cup (IF failed = {} /\ legacy_read
                                   THEN {"tokenUsage"} ELSE {})),
              windows |-> base.windows,
              sessions |-> base.sessions,
              prev_sessions |-> base.prev_sessions]

ValidPeriods == {"week", "month", "all-time"}
ValidLevels == {"all"} \cup CEFR_LEVELS

\* the level is not looked at
analytics_request_valid_period_only(period, level) ==
    period \in ValidPeriods

\* main.py lines 367-373
analytics_request_valid(period, level) ==
    /\ period \in ValidPeriods
    /\ level \in ValidLevels

\* main.py get_teacher_analytics: the two validations, then the service call
\* inside try/except
get_teacher_analytics_endpoint(teacherId, period, level) ==
    /\ reply.status = 0
    /\ request' = [endpoint |-> "analytics", teacherId |-> teacherId,
                   period |-> period, level |-> level]
    /\ IF ~analytics_request_valid(period, level)
       THEN /\ reply' = [NoReply EXCEPT !.status = 400]
            /\ reads' = {}
       ELSE LET r == teacher_analytics_response(store, teacherId, period,
                                                level, now)
            IN  /\ reply' = [status |-> IF r.raised THEN 500 ELSE 200,
                             body |-> r.body,
                             windows |-> r.windows,
                             sessions |-> r.sessions,
                             prev_sessions |-> r.prev_sessions]
                /\ reads' = r.reads
    /\ UNCHANGED <<store, aggregatorVars, pulseVars, narratorVars, reviewVars>>

\* AnalyticsService.get_class_mistakes: the students are the users whose
\* teacherId is the teacher; a read error for one student is caught and that
\* student is skipped (lines 951-993)
class_mistakes_response(st, teacher_id, period, t) ==
    LET range == get_time_range(period, t)
        students == {u \in DOMAIN st.users :
                        st.users[u].exists /\ st.users[u].teacherId = teacher_id}
        mistakes == {[id |-> x.id, studentId |-> x.userId] :
                        x \in {y \in st.items :
                                  /\ y.userId \in students
                                  /\ ~read_fails(st, y.userId, "reviewItems")
                                  /\ y.createdAt >= range.start
                                  /\ y.createdAt <= range.end}}
    IN  [body |-> [mistakes |-> mistakes, summary |-> Cardinality(mistakes)],
         reads |-> IF students = {} THEN {"users"} ELSE {"users", "reviewItems"},
         windows |-> [start |-> range.start, end |-> range.end,
                      prev |-> NoPrevious]]

\* main.py get_class_mistakes
get_class_mistakes_endpoint(teacherId, period) ==
    /\ reply.status = 0
    /\ request' = [endpoint |-> "mistakes", teacherId |-> teacherId,
                   period |-> period, level |-> "all"]
    /\ IF period \notin ValidPeriods
       THEN /\ reply' = [NoReply EXCEPT !.status = 400]
            /\ reads' = {}
       ELSE LET r == class_mistakes_response(store, teacherId, period, now)
            IN  /\ reply' = [status |-> 200,
                             body |-> r.body,
                             windows |-> r.windows,
                             sessions |-> {},
                             prev_sessions |-> {}]
                /\ reads' = r.reads
    /\ UNCHANGED <<store, aggregatorVars, pulseVars, narratorVars, reviewVars>>

InitCalls ==
    /\ pc = [c \in Callers |-> "idle"]
    /\ force = [c \in Callers |-> FALSE]
    /\ ref = [c \in Callers |-> today(StartTime)]
    /\ analytics = [c \in Callers |-> NoAnalytics]
    /\ insights = [c \in Callers |-> <<>>]
    /\ calledAI = [c \in Callers |-> FALSE]
    /\ result = [c \in Callers |-> NoResult]

NoResponse == [kind |-> "none", hasInsights |-> FALSE, insights |-> <<>>]

InitNarratorIdle ==
    /\ response = NoResponse
    /\ narrated = <<>>
    /\ returned = FALSE

Init ==
    /\ now = StartTime
    /\ \E k \in 0..MaxOldSessions :
          sessions = [t \in Times |-> IF t = OldTime THEN k ELSE 0]
    /\ items = [x \in Texts |-> 0]
    /\ geminiClient = TRUE
    /\ dailyInsights = [d \in Days |-> NoDoc]
    /\ InitCalls
    /\ InitNarratorIdle
    /\ InitReviewIdle
    /\ InitRequestIdle

PulseStep(c) ==
    \/ \E f \in BOOLEAN : generate_class_pulse(c, f)
    \/ pulse_gate(c)
    \/ pulse_skip(c)
    \/ pulse_analytics(c)
    \/ pulse_gemini(c)
    \/ pulse_save(c)

Next ==
    \/ PulseStep("c1")
    \/ Tick
    \/ AddSession
    \/ \E x \in Texts : AddItem(x)

Spec == Init /\ [][Next]_vars

\* ------------------------------------------- the Insight Narrator alone
\* the insight objects the generative service may return
RawInsights ==
    { RawInsight(RequiredKeys, "warning", 2, 3, TRUE),
      RawInsight(RequiredKeys, "danger", TITLE_LIMIT + 1, MESSAGE_LIMIT + 1, TRUE),
      RawInsight(RequiredKeys, "success", TITLE_LIMIT, MESSAGE_LIMIT, TRUE),
      RawInsight(RequiredKeys, "info", 2, 3, FALSE),
      RawInsight({"title", "message"}, "", 2, 3, TRUE),
      RawInsight({"type", "message"}, "info", 0, 3, TRUE),
      RawInsight({"type", "title"}, "success", 2, 0, TRUE) }

RECURSIVE SeqsUpTo(_, _)
SeqsUpTo(S, n) ==
    IF n = 0 THEN {<<>>}
    ELSE LET shorter == SeqsUpTo(S, n - 1)
         IN  shorter \cup {Append(q, x) : q \in shorter, x \in S}

NarratorResponses ==
    { [kind |-> "error", hasInsights |-> FALSE, insights |-> <<>>],
      [kind |-> "malformed", hasInsights |-> FALSE, insights |-> <<>>],
      [kind |-> "json", hasInsights |-> FALSE, insights |-> <<>>] }
    \cup { [kind |-> "json", hasInsights |-> TRUE, insights |-> q] :
              q \in SeqsUpTo(RawInsights, MaxRawInsights) }

InitNarrator ==
    /\ now = StartTime
    /\ sessions = [t \in Times |-> 0]
    /\ items = [x \in Texts |-> 0]
    /\ dailyInsights = [d \in Days |-> NoDoc]
    /\ InitCalls
    /\ geminiClient \in BOOLEAN
    /\ response \in NarratorResponses
    /\ narrated = <<>>
    /\ returned = FALSE
    /\ InitReviewIdle
    /\ InitRequestIdle

\* one call of _call_gemini_for_insights
narrate ==
    /\ ~returned
    /\ narrated' = call_gemini_for_insights(geminiClient, response)
    /\ returned' = TRUE
    /\ UNCHANGED <<pulseVars, response, reviewVars, requestVars>>

SpecNarrator == InitNarrator /\ [][narrate]_vars

\* ---------------------------------------------- the Review Service alone
InitReview ==
    /\ now = StartTime
    /\ sessions = [t \in Times |-> 0]
    /\ items = [x \in Texts |-> 0]
    /\ geminiClient = TRUE
    /\ dailyInsights = [d \in Days |-> NoDoc]
    /\ InitCalls
    /\ InitNarratorIdle
    /\ InitReviewIdle
    /\ InitRequestIdle

ReviewStep(c) ==
    \/ create_review_lesson(c)
    \/ review_select(c)
    \/ review_set_lesson(c)
    \/ review_update_item(c)

\* one create_review_lesson call at a time for the user
NextReview ==
    \/ ReviewStep("r1")
    \/ ReviewTick
    \/ \E i \in ItemIds, sev \in Severities : AddReviewItem(i, sev)

SpecReview == InitReview /\ [][NextReview]_vars

\* -------------------- the Review Service with writes that may be refused
\* the user has every review item on record, none reviewed yet
InitReviewFail ==
    /\ now = StartTime
    /\ sessions = [t \in Times |-> 0]
    /\ items = [x \in Texts |-> 0]
    /\ geminiClient = TRUE
    /\ dailyInsights = [d \in Days |-> NoDoc]
    /\ InitCalls
    /\ InitNarratorIdle
    /\ clock = 0
    /\ \E sev \in [ItemIds -> Severities] :
          reviewItems = [i \in ItemIds |->
                            [NoItem EXCEPT !.exists = TRUE, !.severity = sev[i]]]
    /\ reviewLessons = [w \in Weeks |-> NoLesson]
    /\ rpc = [c \in ReviewCallers |-> "idle"]
    /\ week_start = [c \in ReviewCallers |-> 0]
    /\ review_items = [c \in ReviewCallers |-> <<>>]
    /\ created_at = [c \in ReviewCallers |-> 0]
    /\ review = [c \in ReviewCallers |-> NoReview]
    /\ InitRequestIdle

\* a day passes, up to the second day of the second week
FailTick ==
    /\ clock < FailHorizon
    /\ clock' = clock + 1
    /\ UNCHANGED <<reviewItems, reviewLessons, rpc, week_start, review_items,
                   created_at, review>>
    /\ UNCHANGED <<pulseVars, narratorVars, requestVars>>

NextReviewFail ==
    \/ ReviewStep("r1")
    \/ review_update_fails("r1")
    \/ FailTick

SpecReviewFail == InitReviewFail /\ [][NextReviewFail]_vars

\* ------------------ two create_review_lesson calls for one user at a time
\* a day passes; a call lasts less than a week, so none is in progress when a
\* new week begins
RaceTick ==
    /\ clock < RaceHorizon
    /\ get_week_start(clock + 1) # get_week_start(clock) =>
          \A c \in ReviewCallers : rpc[c] \in {"idle", "done"}
    /\ clock' = clock + 1
    /\ UNCHANGED <<reviewItems, reviewLessons, rpc, week_start, review_items,
                   created_at, review>>
    /\ UNCHANGED <<pulseVars, narratorVars, requestVars>>

\* the manual endpoint and the scheduled batch call create_review_lesson for
\* the same user
NextReviewRace ==
    \/ \E c \in ReviewCallers : ReviewStep(c)
    \/ RaceTick

\* the second week begins: the user has every review item on record, the
\* first is the least severe, and the lesson of the first week, created on its
\* first day, has reviewed them all once
InitReviewRace ==
    /\ now = StartTime
    /\ sessions = [t \in Times |-> 0]
    /\ items = [x \in Texts |-> 0]
    /\ geminiClient = TRUE
    /\ dailyInsights = [d \in Days |-> NoDoc]
    /\ InitCalls
    /\ InitNarratorIdle
    /\ clock = 7
    /\ reviewItems = [i \in ItemIds |->
                         [NoItem EXCEPT !.exists = TRUE,
                                        !.severity = IF i = 1 THEN 0 ELSE 8,
                                        !.reviewCount = 1,
                                        !.lastReviewedAt = <<0>>,
                                        !.includedInReviews = {0}]]
    /\ reviewLessons = [w \in Weeks |->
          IF w = 0
          THEN [exists |-> TRUE, createdAt |-> 0,
                targetStruggles |-> [k \in ItemIds |-> IF k = NumReviewItems THEN 1 ELSE k + 1]]
          ELSE NoLesson]
    /\ rpc = [c \in ReviewCallers |-> "idle"]
    /\ week_start = [c \in ReviewCallers |-> 0]
    /\ review_items = [c \in ReviewCallers |-> <<>>]
    /\ created_at = [c \in ReviewCallers |-> 0]
    /\ review = [c \in ReviewCallers |-> NoReview]
    /\ InitRequestIdle

SpecReviewRace == InitReviewRace /\ [][NextReviewRace]_vars

\* ------------------------- the Review Service with more items than a lesson
\* takes
NumCapItems == MAX_STRUGGLES + CapExtraItems
CapItemIds == 1..NumCapItems

\* the user has the first k review items on record, none reviewed yet
InitReviewCap ==
    /\ now = StartTime
    /\ sessions = [t \in Times |-> 0]
    /\ items = [x \in Texts |-> 0]
    /\ geminiClient = TRUE
    /\ dailyInsights = [d \in Days |-> NoDoc]
    /\ InitCalls
    /\ InitNarratorIdle
    /\ clock = 0
    /\ \E k \in 0..NumCapItems : \E sev \in [CapItemIds -> Severities] :
          reviewItems = [i \in CapItemIds |->
                            IF i <= k
                            THEN [NoItem EXCEPT !.exists = TRUE,
                                                !.severity = sev[i]]
                            ELSE NoItem]
    /\ reviewLessons = [w \in Weeks |-> NoLesson]
    /\ rpc = [c \in ReviewCallers |-> "idle"]
    /\ week_start = [c \in ReviewCallers |-> 0]
    /\ review_items = [c \in ReviewCallers |-> <<>>]
    /\ created_at = [c \in ReviewCallers |-> 0]
    /\ review = [c \in ReviewCallers |-> NoReview]
    /\ InitRequestIdle

\* a day passes
CapTick ==
    /\ clock < CapHorizon
    /\ clock' = clock + 1
    /\ UNCHANGED <<reviewItems, reviewLessons, rpc, week_start, review_items,
                   created_at, review>>
    /\ UNCHANGED <<pulseVars, narratorVars, requestVars>>

NextReviewCap ==
    \/ ReviewStep("r1")
    \/ CapTick

SpecReviewCap == InitReviewCap /\ [][NextReviewCap]_vars

\* ------------------------------- analytics requests over the time windows
\* the teacher has one mission with up to MaxWindowSessions sessions of one
\* student, created around the edges of the windows
WindowNow == 2 * MONTH_DAYS * TicksPerDay + TicksPerDay
WindowEdges ==
    {WindowNow - n * TicksPerDay : n \in {WEEK_DAYS, 2 * WEEK_DAYS,
                                          MONTH_DAYS, 2 * MONTH_DAYS}}
WindowInstants ==
    {WindowNow} \cup UNION {{e - 1, e, e + 1} : e \in WindowEdges}
SummarySlots == {1, 2}
StarValues == {0, 2, 4}
SummaryInstants == {WindowNow - 1, WindowNow - WEEK_DAYS * TicksPerDay - 1}
NoSummary == [at |-> 0, stars |-> 0]
SummaryOptions ==
    {NoSummary} \cup [at : SummaryInstants, stars : StarValues]

WindowStore(S, f) ==
    [missions |-> {[id |-> "m1", teacherId |-> "T1", targetLevel |-> "B1"]},
     sessions |-> {[id |-> t, missionId |-> "m1", userId |-> "u1",
                    createdAt |-> t] : t \in S},
     users |-> [u \in {"u1"} |->
                   [exists |-> TRUE, teacherId |-> "T1", level |-> "B1"]],
     summaries |-> {[id |-> i, userId |-> "u1", createdAt |-> f[i].at,
                     stars |-> f[i].stars] :
                        i \in {j \in SummarySlots : f[j] # NoSummary}},
     items |-> {},
     usage |-> {},
     failing |-> {}]

InitWindows ==
    /\ now = WindowNow
    /\ sessions = [t \in Times |-> 0]
    /\ items = [x \in Texts |-> 0]
    /\ geminiClient = TRUE
    /\ dailyInsights = [d \in Days |-> NoDoc]
    /\ InitCalls
    /\ InitNarratorIdle
    /\ InitReviewIdle
    /\ \E S \in SUBSET WindowInstants : \E f \in [SummarySlots -> SummaryOptions] :
          /\ Cardinality(S) <= MaxWindowSessions
          /\ store = WindowStore(S, f)
    /\ request = NoRequest
    /\ reply = NoReply
    /\ reads = {}
    /\ level_struggles = <<>>
    /\ topStruggles = NotAggregated

NextWindows ==
    \E period \in ValidPeriods :
        get_teacher_analytics_endpoint("T1", period, "all")

SpecWindows == InitWindows /\ [][NextWindows]_vars

\* --------------------------------- analytics requests over two tenants
\* teacher T1 owns mission m1, teacher T2 mission m2, T3 has no mission; each
\* student is assigned to T1 or T2 and has sessions on any of the missions
Students == {"u1", "u2"}
Collections == {"users", "sessionSummaries", "reviewItems", "usage"}
RequestPeriods == ValidPeriods \cup {"year"}
RequestLevels == {"all", "A1", "Z9"}
RequestTeachers == {"T1", "T3"}
TenantMissions ==
    {[id |-> "m1", teacherId |-> "T1", targetLevel |-> "A1"],
     [id |-> "m2", teacherId |-> "T2", targetLevel |-> "B1"]}

\* every student has a rated summary, a token usage record and
\* MISMATCH_STRUGGLE_THRESHOLD significant review items of the last day
TenantStore(S, teacher, F) ==
    [missions |-> TenantMissions,
     sessions |-> {[id |-> x, missionId |-> x[1], userId |-> x[2],
                    createdAt |-> WindowNow - 1] : x \in S},
     users |-> [u \in Students |->
                   [exists |-> TRUE, teacherId |-> teacher[u], level |-> "A1"]],
     summaries |-> {[id |-> u, userId |-> u, createdAt |-> WindowNow - 1,
                     stars |-> 4] : u \in Students},
     items |-> {[id |-> <<u, i>>, userId |-> u, createdAt |-> WindowNow - 1,
                 significant |-> TRUE] :
                    u \in Students, i \in 1..MISMATCH_STRUGGLE_THRESHOLD},
     usage |-> {[userId |-> u, startTime |-> WindowNow - 1] : u \in Students},
     failing |-> F]

InitRequests ==
    /\ now = WindowNow
    /\ sessions = [t \in Times |-> 0]
    /\ items = [x \in Texts |-> 0]
    /\ geminiClient = TRUE
    /\ dailyInsights = [d \in Days |-> NoDoc]
    /\ InitCalls
    /\ InitNarratorIdle
    /\ InitReviewIdle
    /\ \E S \in SUBSET ({"m1", "m2"} \X Students) :
       \E teacher \in [Students -> {"T1", "T2"}] :
       \E F \in SUBSET (Students \X Collections) :
          /\ Cardinality(F) <= 1
          /\ store = TenantStore(S, teacher, F)
    /\ request = NoRequest
    /\ reply = NoReply
    /\ reads = {}
    /\ level_struggles = <<>>
    /\ topStruggles = NotAggregated

NextRequests ==
    \/ \E teacherId \in RequestTeachers, period \in RequestPeriods,
          level \in RequestLevels :
            get_teacher_analytics_endpoint(teacherId, period, level)
    \/ \E teacherId \in RequestTeachers, period \in RequestPeriods :
            get_class_mistakes_endpoint(teacherId, period)

SpecRequests == InitRequests /\ [][NextRequests]_vars

\* ------------------------------------------------- the Level Aggregator
\* the texts in the order in which the loop of lines 432-441 first meets them
\* (the insertion order of counts); the text is the correction cut to 50
RECURSIVE texts_in_order(_)
texts_in_order(review_items_) ==
    IF review_items_ = <<>> THEN <<>>
    ELSE LET n == Len(review_items_)
             before == texts_in_order(SubSeq(review_items_, 1, n - 1))
             text == Prefix(review_items_[n].correction, TITLE_LIMIT)
         IN  IF \E i \in 1..Len(before) : before[i] = text
             THEN before ELSE Append(before, text)

\* lines 443-454: one entry per text
struggle_entry(review_items_, text) ==
    LET of_text == {i \in 1..Len(review_items_) :
                       Prefix(review_items_[i].correction, TITLE_LIMIT) = text}
        last == CHOOSE i \in of_text : \A j \in of_text : j <= i
        total == SumOver([i \in of_text |-> review_items_[i].severity], of_text)
        n == Cardinality(of_text)
    IN  [text |-> text,
         type |-> review_items_[last].errorType,
         count |-> n,
         severity |-> IF total >= 7 * n THEN "high"
                      ELSE IF total >= 4 * n THEN "medium" ELSE "low"]

\* list.sort(key = count, reverse = True): entries of equal count keep the
\* order they had
RECURSIVE sort_by_count(_)
sort_by_count(entries) ==
    IF entries = <<>> THEN <<>>
    ELSE LET n == Len(entries)
             sorted == sort_by_count(SubSeq(entries, 1, n - 1))
             x == entries[n]
             p == Cardinality({i \in 1..Len(sorted) : sorted[i].count >= x.count})
         IN  SubSeq(sorted, 1, p) \o <<x>> \o SubSeq(sorted, p + 1, Len(sorted))

\* _aggregate_struggles, as the list it returns
top_struggles(review_items_) ==
    LET order == texts_in_order(review_items_)
        entries == [i \in 1..Len(order) |->
                        struggle_entry(review_items_, order[i])]
    IN  Take(sort_by_count(entries), TOP_STRUGGLES_LIMIT)

Corrections == {Text("a", 10), Text("b", 10), Text("b", 60)}
ErrorTypes == {"Grammar", "Vocabulary"}
ItemSeverities == {2, 8}
ReviewItemRecords ==
    [correction : Corrections, errorType : ErrorTypes, severity : ItemSeverities]

InitAggregator ==
    /\ now = StartTime
    /\ sessions = [t \in Times |-> 0]
    /\ items = [x \in Texts |-> 0]
    /\ geminiClient = TRUE
    /\ dailyInsights = [d \in Days |-> NoDoc]
    /\ InitCalls
    /\ InitNarratorIdle
    /\ InitReviewIdle
    /\ store = EmptyStore
    /\ request = NoRequest
    /\ reply = NoReply
    /\ reads = {}
    /\ level_struggles \in SeqsUpTo(ReviewItemRecords, MaxStruggleRecords)
    /\ topStruggles = NotAggregated

\* self._aggregate_struggles(data['struggles']) (line 313)
aggregate_struggles_call ==
    /\ ~topStruggles.done
    /\ topStruggles' = [done |-> TRUE, list |-> top_struggles(level_struggles)]
    /\ UNCHANGED <<level_struggles, store, request, reply, reads, pulseVars,
                   narratorVars, reviewVars>>

SpecAggregator == InitAggregator /\ [][aggregate_struggles_call]_vars

\* ------------------------------------- analytics requests over one class
\* teacher T1 has one B1 mission; the requests are made at WindowNow
LastDay == WindowNow - 1
LastWeek == WindowNow - WEEK_DAYS * TicksPerDay - 1
ClassMissions == {[id |-> "m1", teacherId |-> "T1", targetLevel |-> "B1"]}
StarsLists == SeqsUpTo({0, 3, 5}, 3)

\* the summaries of user u created at instant at, one per element of stars;
\* 0 stands for a summary without stars
SummariesOf(u, at, stars) ==
    {[id |-> <<at, i>>, userId |-> u, createdAt |-> at, stars |-> stars[i]] :
        i \in 1..Len(stars)}

\* student u1 has k sessions of the last day and p sessions of the week
\* before, and summaries with the stars cs and ps
TrendStore(k, p, cs, ps) ==
    [missions |-> ClassMissions,
     sessions |-> {[id |-> <<LastDay, i>>, missionId |-> "m1", userId |-> "u1",
                    createdAt |-> LastDay] : i \in 1..k}
                  \cup {[id |-> <<LastWeek, i>>, missionId |-> "m1",
                         userId |-> "u1", createdAt |-> LastWeek] : i \in 1..p},
     users |-> [u \in {"u1"} |->
                   [exists |-> TRUE, teacherId |-> "T1", level |-> "B1"]],
     summaries |-> SummariesOf("u1", LastDay, cs)
                   \cup SummariesOf("u1", LastWeek, ps),
     items |-> {},
     usage |-> {},
     failing |-> {}]

\* student u1 has one session of the last day and the user document user
StatusStore(user) ==
    [TrendStore(1, 0, <<>>, <<>>) EXCEPT !.users = [u \in {"u1"} |-> user]]

LastSessionTimes == (WindowNow - MaxDaysAgo * TicksPerDay)..(WindowNow + 1)

\* the usage records of one user: n in the window and, with old, one before
\* it, each with the tokens tin and tout
UsageOf(u, n, old, tin, tout) ==
    {[id |-> <<u, i>>, userId |-> u, startTime |-> LastDay,
      inputTokens |-> tin, outputTokens |-> tout] : i \in 1..n}
    \cup (IF old THEN {[id |-> <<u, 0>>, userId |-> u, startTime |-> 1,
                         inputTokens |-> tin, outputTokens |-> tout]}
          ELSE {})

CostStudents == {"u1", "u2"}
UsageShapes == [new : 0..MaxUsageRecords, old : BOOLEAN, legacy : 0..MaxUsageRecords]

\* both students have a session of the last day; student u has shape[u].new
\* records under users/u/sessions and shape[u].legacy records in tokenUsage
CostStore(shape, F) ==
    [missions |-> ClassMissions,
     sessions |-> {[id |-> u, missionId |-> "m1", userId |-> u,
                    createdAt |-> LastDay] : u \in CostStudents},
     users |-> [u \in CostStudents |->
                   [exists |-> TRUE, teacherId |-> "T1", level |-> "B1"]],
     summaries |-> {},
     items |-> {},
     usage |-> UNION {UsageOf(u, shape[u].new, shape[u].old, 100, 10) :
                         u \in CostStudents},
     tokenUsage |-> UNION {UsageOf(u, shape[u].legacy, FALSE, 1000, 1) :
                              u \in CostStudents},
     failing |-> F]

\* a review item of the current schema, one of the legacy schema, or none
ItemShapes == {"none", "current", "legacy"}
ItemOf(u, shape) ==
    IF shape = "current"
    THEN {[id |-> u, userId |-> u, createdAt |-> LastDay, significant |-> FALSE,
           correction |-> "a", userSentence |-> "b"]}
    ELSE IF shape = "legacy"
    THEN {[id |-> u, userId |-> u, createdAt |-> LastDay, significant |-> FALSE,
           word |-> "a"]}
    ELSE {}

\* students u1 (A1) and u2 (B1) both have a session of the last day on the
\* teacher's mission and the review item shape[u]
InsightStore(shape) ==
    [missions |-> ClassMissions,
     sessions |-> {[id |-> u, missionId |-> "m1", userId |-> u,
                    createdAt |-> LastDay] : u \in CostStudents},
     users |-> [u \in CostStudents |->
                   [exists |-> TRUE, teacherId |-> "T1",
                    level |-> IF u = "u1" THEN "A1" ELSE "B1"]],
     summaries |-> {},
     items |-> UNION {ItemOf(u, shape[u]) : u \in CostStudents},
     usage |-> {},
     failing |-> {}]

ClassStores ==
    {TrendStore(k, p, <<>>, <<>>) :
        k \in 0..MaxTrendSessions, p \in 0..MaxTrendSessions}
    \cup {TrendStore(1, 1, cs, ps) : cs \in StarsLists, ps \in StarsLists}

InitClass ==
    /\ now = WindowNow
    /\ sessions = [t \in Times |-> 0]
    /\ items = [x \in Texts |-> 0]
    /\ geminiClient = TRUE
    /\ dailyInsights = [d \in Days |-> NoDoc]
    /\ InitCalls
    /\ InitNarratorIdle
    /\ InitReviewIdle
    /\ \/ store \in ClassStores
       \/ store = StatusStore([exists |-> TRUE, teacherId |-> "T1",
                               level |-> "B1"])
       \/ \E shape \in [CostStudents -> UsageShapes] :
          \E F \in {{}, {<<"u1", "usage">>}} :
             store = CostStore(shape, F)
       \/ \E shape \in [CostStudents -> ItemShapes] :
             store = InsightStore(shape)
       \/ \E last \in LastSessionTimes :
             store = StatusStore([exists |-> TRUE, teacherId |-> "T1",
                                  level |-> "B1", lastSessionAt |-> last])
    /\ request = NoRequest
    /\ reply = NoReply
    /\ reads = {}
    /\ level_struggles = <<>>
    /\ topStruggles = NotAggregated

NextClass ==
    \E period \in {"week", "month"} :
        get_teacher_analytics_endpoint("T1", period, "all")

SpecClass == InitClass /\ [][NextClass]_vars

\* two non-forced generate_class_pulse requests for the same teacher in
\* flight at once
NextRace ==
    \/ \E c \in Callers :
          \/ generate_class_pulse(c, FALSE)
          \/ pulse_gate(c)
          \/ pulse_skip(c)
          \/ pulse_analytics(c)
          \/ pulse_gemini(c)
          \/ pulse_save(c)
    \/ Tick
    \/ AddSession

SpecRace == Init /\ [][NextRace]_vars

\* ------------------------------------------------------------ the claims
Finished(c) == pc[c] \in {"idle", "done"}

\* C1: for a non-forced call that finds a snapshot for its day, the gate
\* decides to regenerate exactly when the session total has grown by at least
\* 3 or the struggle total by at least 5 since the snapshot; snapshot {10,20}
\* against current {12,20} stays fresh and against {13,20} goes stale.
C1_GateThresholdRule ==
    [][ /\ ~thresholds_met(10, 20, 12, 20)
        /\ thresholds_met(10, 20, 13, 20)
        /\ \A c \in Callers :
              (pc[c] = "gate" /\ pc'[c] # "gate" /\ dailyInsights[ref[c]].exists) =>
                 LET snap == dailyInsights[ref[c]].dataSnapshot
                     cur == get_teacher_analytics(sessions, items, now)
                 IN  (pc'[c] = "analytics") <=>
                        \/ cur.sessionCount - snap.totalSessions >= 3
                        \/ cur.totalStruggles - snap.totalStruggles >= 5 ]_vars

\* C1 witness: the gate has just sent a non-forced call to regeneration
\* because three sessions were added since the snapshot
C1_Witness ==
    /\ pc["c1"] = "analytics" /\ ~force["c1"]
    /\ dailyInsights[ref["c1"]].exists
    /\ get_teacher_analytics(sessions, items, now).sessionCount
          - dailyInsights[ref["c1"]].dataSnapshot.totalSessions = 3
    /\ get_teacher_analytics(sessions, items, now).totalStruggles
          - dailyInsights[ref["c1"]].dataSnapshot.totalStruggles < 5

\* C2: a call the gate found fresh makes no generative call, and its only
\* write refreshes stillValidAt: insights, generatedAt and dataSnapshot of the
\* snapshot, and every other document, stay as they were.
C2_FreshOnlyRefreshesStillValidAt ==
    [][ \A c \in Callers :
          /\ pc[c] = "skip" => ~force[c] /\ ~calledAI[c]
          /\ (pc[c] = "skip" /\ pc'[c] # "skip") =>
                LET old == dailyInsights[ref[c]]
                    new == dailyInsights'[ref[c]]
                IN  /\ old.exists /\ new.exists
                    /\ new.stillValidAt = now
                    /\ new.insights = old.insights
                    /\ new.generatedAt = old.generatedAt
                    /\ new.dataSnapshot = old.dataSnapshot
                    /\ \A d \in Days \ {ref[c]} : dailyInsights'[d] = dailyInsights[d]
                    /\ ~calledAI'[c]
                    /\ pc'[c] = "done"
                    /\ result'[c].kind = "skipped"
                    /\ result'[c].insights = old.insights ]_vars

\* C2 witness: a skipped call has refreshed stillValidAt of a snapshot
\* generated earlier
C2_Witness ==
    /\ pc["c1"] = "done" /\ result["c1"].kind = "skipped"
    /\ dailyInsights[today(now)].exists
    /\ dailyInsights[today(now)].stillValidAt > dailyInsights[today(now)].generatedAt

\* C3: a forced call never consults the gate; whenever the weekly session
\* total is non-zero it invokes the Insight Narrator and then replaces the
\* snapshot of its day, whatever that snapshot held.
C3_ForceBypassesGate ==
    [][ \A c \in Callers :
          /\ force[c] => pc[c] \in {"analytics", "gemini", "save"}
          /\ (Finished(c) /\ ~Finished(c)' /\ force'[c]) => pc'[c] = "analytics"
          /\ (force[c] /\ pc[c] = "analytics" /\ pc'[c] # "analytics") =>
                IF get_teacher_analytics(sessions, items, now).sessionCount # 0
                THEN pc'[c] = "gemini" ELSE pc'[c] = "done"
          /\ (force[c] /\ pc[c] = "gemini" /\ pc'[c] # "gemini") =>
                /\ pc'[c] = "save"
                /\ calledAI'[c] = geminiClient
                /\ insights'[c] # <<>>
          /\ (force[c] /\ pc[c] = "save" /\ pc'[c] # "save") =>
                /\ pc'[c] = "done"
                /\ dailyInsights'[ref[c]] =
                      [exists |-> TRUE, insights |-> insights[c],
                       generatedAt |-> now, stillValidAt |-> now,
                       dataSnapshot |-> [totalSessions |-> analytics[c].sessionCount,
                                         totalStruggles |-> analytics[c].totalStruggles,
                                         lastGeneratedAt |-> now]]
                /\ result'[c].kind = "new" /\ result'[c].isNew ]_vars

\* C3 witness: a forced call is about to overwrite a snapshot although no
\* threshold is met
C3_Witness ==
    /\ pc["c1"] = "save" /\ force["c1"]
    /\ dailyInsights[ref["c1"]].exists
    /\ ~thresholds_met(dailyInsights[ref["c1"]].dataSnapshot.totalSessions,
                       dailyInsights[ref["c1"]].dataSnapshot.totalStruggles,
                       get_teacher_analytics(sessions, items, now).sessionCount,
                       get_teacher_analytics(sessions, items, now).totalStruggles)
    /\ dailyInsights[ref["c1"]].insights # insights["c1"]

\* C4: without a snapshot for its day a call always goes on to generation;
\* with a weekly session total of zero it returns the empty state without a
\* generative call and without a write, so no snapshot records zero sessions.
C4_NoSnapshotAlwaysStale ==
    [][ /\ \A c \in Callers :
              /\ (pc[c] = "gate" /\ pc'[c] # "gate" /\ ~dailyInsights[ref[c]].exists)
                    => pc'[c] = "analytics"
              /\ ( /\ pc[c] = "analytics" /\ pc'[c] # "analytics"
                   /\ get_teacher_analytics(sessions, items, now).sessionCount = 0 ) =>
                    /\ pc'[c] = "done"
                    /\ result'[c] = [kind |-> "empty", insights |-> <<>>, isNew |-> FALSE]
                    /\ ~calledAI'[c]
                    /\ dailyInsights' = dailyInsights
        /\ \A d \in Days :
              dailyInsights'[d].exists => dailyInsights'[d].dataSnapshot.totalSessions > 0 ]_vars

\* C4 witness: a non-forced call found no snapshot and no activity and
\* returned the empty state, leaving the day without a snapshot
C4_Witness ==
    /\ pc["c1"] = "done" /\ result["c1"].kind = "empty"
    /\ ~dailyInsights[today(now)].exists
    /\ TotalSessions > 0

\* C5: the gate is not atomic with the write: each write replaces the whole
\* document by the writer's own data, so of two calls that both passed the
\* gate the one that writes last determines the stored snapshot entirely.
C5_LastWriteWins ==
    [][ \A c \in Callers :
          (pc[c] = "save" /\ pc'[c] # "save") =>
             /\ ~force[c]
             /\ dailyInsights'[ref[c]].exists
             /\ dailyInsights'[ref[c]].insights = insights[c]
             /\ dailyInsights'[ref[c]].generatedAt = now
             /\ dailyInsights'[ref[c]].stillValidAt = now
             /\ dailyInsights'[ref[c]].dataSnapshot =
                   [totalSessions |-> analytics[c].sessionCount,
                    totalStruggles |-> analytics[c].totalStruggles,
                    lastGeneratedAt |-> now] ]_vars

\* C5 witness: with a single session ever recorded no threshold can be met
\* against a stored snapshot, yet one call has generated and written and the
\* other, having passed the gate before that write, has invoked the
\* generative service too and is about to overwrite the snapshot
C5_Witness ==
    /\ TotalSessions = 1
    /\ pc["c2"] = "done" /\ result["c2"].kind = "new" /\ calledAI["c2"]
    /\ pc["c1"] = "save" /\ calledAI["c1"] /\ ~force["c1"]
    /\ ref["c1"] = today(now)
    /\ dailyInsights[today(now)].exists
    /\ dailyInsights[today(now)].generatedAt < now
    /\ insights["c1"] # dailyInsights[today(now)].insights

\* the raw insights among the first three of the response that carry type,
\* title and message
KeptRaws ==
    SelectSeq(SubSeq(response.insights, 1, Min(3, Len(response.insights))),
              LAMBDA raw : {"type", "title", "message"} \subseteq raw.keys)

TheStaticInsight ==
    << [type |-> "info", level |-> "null",
        title |-> [src |-> "Insights Unavailable", len |-> 20],
        message |-> [src |-> "Unable to generate AI insights at this time.",
                     len |-> 87]] >>

\* C6: every list the Insight Narrator returns has at most 3 insights, each
\* with a type among warning, info, success (any other coerced to info), a
\* title of at most 50 and a message of at most 200 characters; a list that
\* is not the static fallback holds exactly the insights of the response that
\* carry type, title and message, the others being dropped.
C6_InsightsAreBounded ==
    returned =>
       /\ Len(narrated) <= 3
       /\ \A i \in 1..Len(narrated) :
             /\ narrated[i].type \in {"warning", "info", "success"}
             /\ narrated[i].title.len <= 50
             /\ narrated[i].message.len <= 200
       /\ narrated # TheStaticInsight =>
             /\ Len(narrated) = Len(KeptRaws)
             /\ \A i \in 1..Len(narrated) :
                   /\ narrated[i].type =
                         IF KeptRaws[i].type \in {"warning", "info", "success"}
                         THEN KeptRaws[i].type ELSE "info"
                   /\ narrated[i].title.src = KeptRaws[i].title.src
                   /\ narrated[i].title.len = Min(50, KeptRaws[i].title.len)
                   /\ narrated[i].message.src = KeptRaws[i].message.src
                   /\ narrated[i].message.len = Min(200, KeptRaws[i].message.len)

\* C6 witness: a response of four insights, the first over both limits and of
\* an unknown type, the second lacking its title, came back as two insights
C6_Witness ==
    /\ returned /\ geminiClient
    /\ response.kind = "json" /\ Len(response.insights) = 4
    /\ response.insights[1].type = "danger"
    /\ response.insights[1].title.len = 51
    /\ response.insights[1].message.len = 201
    /\ "title" \notin response.insights[2].keys
    /\ Len(narrated) = 2
    /\ narrated[1].type = "info" /\ narrated[1].title.len = 50
    /\ narrated[1].message.len = 200

\* the call of the generative service failed or gave nothing usable
NarratorFailed ==
    \/ ~geminiClient
    \/ response.kind \in {"error", "malformed"}
    \/ ~response.hasInsights
    \/ KeptRaws = <<>>
    \/ \E i \in 1..Len(KeptRaws) : ~KeptRaws[i].textual

\* C7: whenever the client is missing, the call raises, the answer is no
\* JSON or holds no valid insight, _call_gemini_for_insights returns exactly
\* the single static 'Insights Unavailable' insight; it always returns a
\* non-empty list.
C7_FailureGivesStaticFallback ==
    returned =>
       /\ narrated # <<>>
       /\ NarratorFailed => narrated = TheStaticInsight

\* C7 witness: a parsed answer whose insights all lack a required field was
\* answered by the static fallback
C7_Witness ==
    /\ returned /\ geminiClient
    /\ response.kind = "json" /\ response.hasInsights
    /\ Len(response.insights) = 2
    /\ KeptRaws = <<>>
    /\ narrated = TheStaticInsight

\* C8: a mastered review item has been reviewed at least 3 times.
C8_MasteredImpliesThreeReviews ==
    \A i \in ItemIds :
       reviewItems[i].mastered => reviewItems[i].reviewCount >= 3

\* C8 witness: a call has returned after the third weekly lesson of an item
\* that started unmastered with no reviews, and the item is mastered
C8_Witness ==
    /\ rpc["r1"] = "done" /\ review["r1"].kind = "created"
    /\ \E i \in ItemIds :
          /\ reviewItems[i].mastered
          /\ reviewItems[i].reviewCount = 3
          /\ Cardinality(reviewItems[i].includedInReviews) = 3

\* C9: reviewCount never exceeds 3 and is 3 only on a mastered item (the
\* update that writes 3 writes mastered with it), and no item selected for
\* an increment stands at 3 or more.
C9_CountBoundedByMastery ==
    /\ \A i \in ItemIds :
          /\ reviewItems[i].reviewCount <= 3
          /\ reviewItems[i].reviewCount = 3 => reviewItems[i].mastered
    /\ \A c \in ReviewCallers : \A k \in 1..Len(review_items[c]) :
          /\ review_items[c][k].review_count < 3
          /\ reviewItems[review_items[c][k].id].reviewCount < 3

\* C9 witness: an item stands at 3 reviews, and a call made a week or more
\* after its last review has selected without it
C9_Witness ==
    /\ rpc["r1"] = "done" /\ review["r1"].kind = "insufficient"
    /\ \E i \in ItemIds :
          /\ reviewItems[i].reviewCount = 3
          /\ week_start["r1"] >= reviewItems[i].lastReviewedAt[1] + 7

\* the stored lessons that target item i
LessonsOf(i) ==
    {w \in Weeks : /\ reviewLessons[w].exists
                   /\ \E k \in 1..Len(reviewLessons[w].targetStruggles) :
                         reviewLessons[w].targetStruggles[k] = i}

\* item i was reviewed less than 7 days ago
InCooldown(i) ==
    /\ reviewItems[i].lastReviewedAt # <<>>
    /\ clock < reviewItems[i].lastReviewedAt[1] + 7

C11_LessonOnlyWhenDue ==
    [][ /\ reviewLessons' # reviewLessons =>
              \E c \in ReviewCallers :
                 /\ rpc[c] = "lesson"
                 /\ ~reviewLessons[week_start[c]].exists
                 /\ Len(review_items[c]) >= 3
                 /\ Len(review_items[c]) <= 8
                 /\ reviewLessons' =
                       [reviewLessons EXCEPT ![week_start[c]] =
                           [exists |-> TRUE,
                            targetStruggles |->
                               [k \in 1..Len(review_items[c]) |->
                                   review_items[c][k].id],
                            createdAt |-> clock]]
        /\ reviewItems' # reviewItems =>
              \E c \in ReviewCallers :
                 /\ rpc[c] = "update"
                 /\ review[c].kind = "created"
                 /\ reviewLessons[week_start[c]].exists
        /\ \A c \in ReviewCallers :
              /\ rpc[c] \in {"idle", "done"} /\ rpc'[c] = "select" =>
                    ~reviewLessons[get_week_start(clock)].exists
              /\ ( /\ rpc[c] \in {"idle", "done"}
                   /\ <<rpc[c], review[c], week_start[c]>>'
                         # <<rpc[c], review[c], week_start[c]>>
                   /\ review'[c].kind = "exists" ) =>
                    /\ reviewLessons[get_week_start(clock)].exists
                    /\ rpc'[c] = "done"
                    /\ UNCHANGED <<reviewItems, reviewLessons>>
              /\ rpc[c] = "select" /\ rpc'[c] = "lesson" =>
                    Len(SelectSeq([i \in DOMAIN reviewItems |-> i],
                           LAMBDA i : /\ reviewItems[i].exists
                                      /\ ~reviewItems[i].mastered
                                      /\ reviewItems[i].reviewCount < 3
                                      /\ \/ reviewItems[i].lastReviewedAt = <<>>
                                         \/ reviewItems[i].lastReviewedAt[1]
                                               <= clock - 7)) >= 3
              /\ rpc[c] = "select" /\ rpc'[c] = "done" =>
                    /\ review'[c].kind = "insufficient"
                    /\ Len(SelectSeq([i \in DOMAIN reviewItems |-> i],
                           LAMBDA i : /\ reviewItems[i].exists
                                      /\ ~reviewItems[i].mastered
                                      /\ reviewItems[i].reviewCount < 3
                                      /\ \/ reviewItems[i].lastReviewedAt = <<>>
                                         \/ reviewItems[i].lastReviewedAt[1]
                                               <= clock - 7)) < 3
                    /\ UNCHANGED <<reviewItems, reviewLessons>> ]_vars

\* C11 witness: with more than 8 eligible items a lesson of exactly 8 was
\* created, and a later call in the same week has returned None on finding it
C11_Witness ==
    /\ rpc["r1"] = "done" /\ review["r1"].kind = "exists"
    /\ reviewLessons[week_start["r1"]].exists
    /\ Len(reviewLessons[week_start["r1"]].targetStruggles) = 8
    /\ Cardinality({i \in DOMAIN reviewItems : reviewItems[i].exists}) > 8
    /\ Cardinality({i \in DOMAIN reviewItems :
                       reviewItems[i].reviewCount = 1}) = 8

\* C12: for week and month the resolver returns current = (now - N days, now)
\* and previous = (current start - N days, current start), N = 7 resp. 30, so
\* the previous window ends where the current one starts and both are equally
\* long; for all-time there is no previous window and no previous-period
\* query is issued
C12_TimeWindows ==
    (reply.status = 200 /\ request.endpoint = "analytics") =>
        LET w == reply.windows
            N == IF request.period = "week" THEN 7 ELSE 30
        IN  /\ request.period \in {"week", "month"} =>
                /\ w.start = now - N * TicksPerDay
                /\ w.end = now
                /\ ~w.prev.none
                /\ w.prev.start = w.start - N * TicksPerDay
                /\ w.prev.end = w.start
                /\ w.prev.end - w.prev.start = w.end - w.start
            /\ request.period = "all-time" =>
                /\ w.end = now
                /\ w.prev.none
                /\ reply.prev_sessions = {}
                /\ reads \cap {"prev_sessions", "prev_sessionSummaries"} = {}

\* a month request that fetched sessions of both windows
C12_Witness ==
    /\ reply.status = 200
    /\ request.period = "month"
    /\ reply.sessions # {}
    /\ reply.prev_sessions # {}
    /\ "prev_sessionSummaries" \in reads

\* C20: for week and month no session is fetched for both the current and the
\* previous window, whatever its timestamp
C20_WindowsShareNoSession ==
    (reply.status = 200 /\ request.period \in {"week", "month"}) =>
        reply.sessions \cap reply.prev_sessions = {}

\* the trend blocks a previous window with sessions and rated summaries gives
RatedAverages ==
    {Avg(sm, n) : sm \in 1..(2 * 4), n \in 1..2}
RealTrends ==
    {calculate_trends(c, p, cs, ps) :
        c \in 0..MaxWindowSessions, p \in 1..MaxWindowSessions,
        cs \in RatedAverages, ps \in RatedAverages}

\* C13: for all-time the trend block of every level is a defined "no previous
\* data" state, one that no comparison against a real previous window renders
C13_AllTimeTrendIsDistinct ==
    (reply.status = 200 /\ request.period = "all-time"
        /\ request.endpoint = "analytics") =>
        \A l \in DOMAIN reply.body.byLevel :
            reply.body.byLevel[l].trends \notin RealTrends

\* C14: an analytics request with an invalid period or level, and a mistakes
\* request with an invalid period, is rejected with status 400 before any
\* access to the document store
C14_RejectedBeforeStoreAccess ==
    (/\ reply.status # 0
     /\ \/ request.period \notin {"week", "month", "all-time"}
        \/ /\ request.endpoint = "analytics"
           /\ request.level \notin {"all", "A1", "A2", "B1", "B2", "C1", "C2"})
    => (reply.status = 400 /\ reads = {})

\* an analytics request with a valid period and an invalid level was rejected
C14_Witness ==
    /\ request.endpoint = "analytics"
    /\ request.period = "week"
    /\ request.level = "Z9"
    /\ request.teacherId = "T1"
    /\ reply.status = 400
    /\ \E x \in store.sessions : x.missionId = "m1"

\* the users whose data a reply shows
visible_users ==
    IF request.endpoint = "mistakes"
    THEN {x.studentId : x \in reply.body.mistakes}
    ELSE UNION {reply.body.byLevel[l].students : l \in DOMAIN reply.body.byLevel}
         \cup reply.body.crossLevelInsights.levelMismatches
         \cup (IF "studentCosts" \in DOMAIN reply.body
               THEN {s.userId : s \in reply.body.studentCosts} ELSE {})

\* C15: every user whose data appears in a response for teacher T appears as
\* userId on a session of one of T's missions
C15_TenantIsolation ==
    reply.status = 200 =>
        visible_users \subseteq
            {x.userId : x \in {y \in store.sessions :
                \E ms \in store.missions :
                    ms.id = y.missionId /\ ms.teacherId = request.teacherId}}

\* C16: a read error for one user during the per-user reads does not abort
\* the analytics request: the reply is a 200 with the other users' data
C16_ReadErrorIsIsolated ==
    (/\ request.endpoint = "analytics"
     /\ reply.status \notin {0, 400}
     /\ \E u \in Students, col \in {"users", "sessionSummaries", "reviewItems"} :
            read_fails(store, u, col))
    => /\ reply.status = 200
       /\ \A u \in {x.userId : x \in reply.sessions} :
             (\A col \in Collections : ~read_fails(store, u, col))
                => u \in visible_users

AnalyticsKeys ==
    {"period", "generatedAt", "byLevel", "totals", "crossLevelInsights",
     "costs", "studentCosts"}

\* C17: with no missions, or no sessions in the window, the analytics
\* response has the top-level keys of every other response, all counts zero
\* and all lists and maps empty
C17_EmptyResponseShape ==
    (/\ request.endpoint = "analytics"
     /\ reply.status \notin {0, 400}
     /\ reply.sessions = {}
     /\ store.failing = {})
    => /\ reply.status = 200
       /\ DOMAIN reply.body = AnalyticsKeys
       /\ DOMAIN reply.body.byLevel = {}
       /\ reply.body.totals.studentCount = 0
       /\ reply.body.totals.sessionCount = 0
       /\ reply.body.crossLevelInsights.levelMismatches = {}
       /\ reply.body.studentCosts = {}

\* the sequences that hold the records of seq in another order
Reorderings(seq) ==
    {[i \in 1..Len(seq) |-> seq[p[i]]] :
        p \in {q \in [1..Len(seq) -> 1..Len(seq)] :
                  \A i, j \in 1..Len(seq) : q[i] = q[j] => i = j}}

\* C18: for a fixed set of records the aggregator's output is the same in
\* whatever order the records are supplied
C18_OrderIndependent ==
    topStruggles.done =>
        \A other \in Reorderings(level_struggles) :
            top_struggles(other) = topStruggles.list

\* C19: the struggle total of the gate is the number of review-item records,
\* so a non-forced call that finds a snapshot taken when there was no record
\* goes to regeneration once five records are there
C19_FiveNewRecordsGoStale ==
    [][ \A c \in Callers :
          (/\ pc[c] = "gate" /\ pc'[c] # "gate"
           /\ dailyInsights[ref[c]].exists
           /\ dailyInsights[ref[c]].dataSnapshot.totalStruggles = 0
           /\ TotalItems >= 5)
          => pc'[c] = "analytics" ]_vars

\* C21: the sessions trend is the percentage change against the previous
\* count, rounded to an integer and suffixed with %, when the previous count
\* is positive; with a previous count of 0 it is "+100%" when the current
\* count is positive and "0%" otherwise; 0 -> 5 gives "+100%", 10 -> 5 "-50%"
C21_SessionsTrend ==
    /\ sessions_trend(5, 0) = [sign |-> "+", digits |-> <<100>>, suffix |-> "%"]
    /\ sessions_trend(5, 10) = [sign |-> "-", digits |-> <<50>>, suffix |-> "%"]
    /\ sessions_trend(0, 0) = [sign |-> "", digits |-> <<0>>, suffix |-> "%"]
    /\ (reply.status = 200 /\ "B1" \in DOMAIN reply.body.byLevel) =>
          LET c == Cardinality(reply.sessions)
              p == Cardinality(reply.prev_sessions)
              t == reply.body.byLevel["B1"].trends.sessions
              change == 100 * (c - p)
          IN  /\ t.suffix = "%"
              /\ Len(t.digits) = 1
              /\ p > 0 =>
                    /\ t.sign = IF change >= 0 THEN "+" ELSE "-"
                    /\ 2 * (IF change >= 0 THEN change - t.digits[1] * p
                            ELSE -change - t.digits[1] * p) <= p
                    /\ 2 * (IF change >= 0 THEN t.digits[1] * p - change
                            ELSE t.digits[1] * p + change) <= p
              /\ (p = 0 /\ c > 0) => (t.sign = "+" /\ t.digits = <<100>>)

\* a week request that found 5 sessions against 10 of the week before
C21_Witness ==
    /\ reply.status = 200
    /\ request.period = "week"
    /\ Cardinality(reply.sessions) = 5
    /\ Cardinality(reply.prev_sessions) = 10
    /\ reply.body.byLevel["B1"].trends.sessions.digits = <<50>>

\* C22: both trend strings carry an explicit sign: + when the change is
\* positive or zero, - when it is negative
C22_TrendsCarrySign ==
    (reply.status = 200 /\ "B1" \in DOMAIN reply.body.byLevel) =>
        LET t == reply.body.byLevel["B1"].trends
            c == Cardinality(reply.sessions)
            p == Cardinality(reply.prev_sessions)
        IN  /\ t.sessions.sign = IF c >= p \/ p = 0 THEN "+" ELSE "-"
            /\ t.avgStars.sign \in {"+", "-"}

\* C23: a level's avgStars is the mean over the summaries of the bucket whose
\* stars are present and non-zero, and 0 when there is none; the stars
\* 3, null, 5 give 4.0
C23_AvgStarsOverRated ==
    /\ LET avg == star_avg(SummariesOf("u1", LastDay, <<3, 0, 5>>))
       IN  avg.sum = 4 * avg.n /\ avg.n > 0
    /\ (reply.status = 200 /\ "B1" \in DOMAIN reply.body.byLevel) =>
          LET rated == {x \in store.summaries :
                            /\ x.createdAt >= reply.windows.start
                            /\ x.createdAt <= reply.windows.end
                            /\ x.stars # 0}
              avg == reply.body.byLevel["B1"].avgStars
          IN  /\ avg.n = Cardinality(rated)
              /\ avg.sum = SumOver([x \in rated |-> x.stars], rated)
              /\ rated = {} => avg.sum = 0

\* a week request over summaries with the stars 3, null, 5
C23_Witness ==
    /\ reply.status = 200
    /\ request.period = "week"
    /\ {x.stars : x \in {y \in store.summaries : y.createdAt = LastDay}}
          = {0, 3, 5}
    /\ reply.body.byLevel["B1"].avgStars = [sum |-> 8, n |-> 2]

\* C24: a student is active iff the whole days since lastSessionAt are at
\* most 3, warning iff they are more than 3 and at most 7, and inactive
\* otherwise; without lastSessionAt the student is inactive; 4 days ago gives
\* warning
C24_ActivityStatus ==
    (reply.status = 200 /\ "B1" \in DOMAIN reply.body.byLevel) =>
        \A u \in reply.body.byLevel["B1"].students :
            LET status == reply.body.byLevel["B1"].activityStatus[u]
                user == store.users[u]
            IN  IF "lastSessionAt" \notin DOMAIN user
                THEN status = "inactive"
                ELSE \E days \in -1..(MaxDaysAgo + 1) :
                        /\ days * TicksPerDay <= now - user.lastSessionAt
                        /\ now - user.lastSessionAt < (days + 1) * TicksPerDay
                        /\ (status = "active") <=> (days <= 3)
                        /\ (status = "warning") <=> (3 < days /\ days <= 7)
                        /\ (status = "inactive") <=> (days > 7)

\* a request for a student whose last session was 4 days ago
C24_Witness ==
    /\ reply.status = 200
    /\ "lastSessionAt" \in DOMAIN store.users["u1"]
    /\ store.users["u1"].lastSessionAt = now - 4 * TicksPerDay
    /\ reply.body.byLevel["B1"].activityStatus["u1"] = "warning"

\* C25: each listed student's token sums come from one location only, the
\* per-user sessions records of the window when there is any and the
\* tokenUsage records otherwise; tokenUsage is read only for a user without
\* such a record, and the totals are the sums of the per-student figures
C25_NoDoubleCount ==
    (reply.status = 200 /\ "studentCosts" \in DOMAIN reply.body
        /\ "tokenUsage" \in DOMAIN store) =>
        LET in_window(docs, u) ==
                {x \in docs : /\ x.userId = u
                              /\ x.startTime >= reply.windows.start
                              /\ x.startTime <= reply.windows.end}
            listed == reply.body.studentCosts
        IN  /\ \A s \in listed :
                LET new == in_window(store.usage, s.userId)
                    legacy == in_window(store.tokenUsage, s.userId)
                    from == IF new # {} THEN new ELSE legacy
                IN  /\ s.inputTokens = SumOver([x \in from |-> x.inputTokens], from)
                    /\ s.outputTokens = SumOver([x \in from |-> x.outputTokens], from)
                    /\ s.sessionCount = Cardinality(from)
            /\ reply.body.costs.inputTokens
                  = SumOver([s \in listed |-> s.inputTokens], listed)
            /\ reply.body.costs.outputTokens
                  = SumOver([s \in listed |-> s.outputTokens], listed)
            /\ "tokenUsage" \in reads =>
                  \E u \in {x.userId : x \in reply.sessions} :
                      in_window(store.usage, u) = {}

\* u1 has records in both locations and is listed with those of the new one;
\* u2 has only tokenUsage records and is listed with them
C25_Witness ==
    /\ reply.status = 200
    /\ "tokenUsage" \in DOMAIN store
    /\ \E x \in store.usage : x.userId = "u1" /\ x.startTime = LastDay
    /\ \E x \in store.tokenUsage : x.userId = "u1"
    /\ \A x \in store.usage : x.userId # "u2"
    /\ \E s \in reply.body.studentCosts :
          s.userId = "u1" /\ s.inputTokens = 200 /\ s.sessionCount = 2
    /\ \E s \in reply.body.studentCosts :
          s.userId = "u2" /\ s.inputTokens = 1000
    /\ reply.body.costs.inputTokens = 1200
    /\ "tokenUsage" \in reads

\* C26: every error text of current-schema review items that occurs for
\* users of at least two levels is reported among the universal struggles
\* with its affected levels and its number of occurrences
C26_UniversalStrugglesReported ==
    (reply.status = 200 /\ "crossLevelInsights" \in DOMAIN reply.body) =>
        LET current == {x \in store.items :
                            /\ "correction" \in DOMAIN x
                            /\ x.userId \in {s.userId : s \in reply.sessions}
                            /\ x.createdAt >= reply.windows.start
                            /\ x.createdAt <= reply.windows.end}
            levels(text) == {store.users[x.userId].level :
                                x \in {y \in current : y.correction = text}}
            reported == reply.body.crossLevelInsights.universalStruggles
        IN  /\ Cardinality(reported) <= 10
            /\ \A text \in {x.correction : x \in current} :
                  Cardinality(levels(text)) >= 2 =>
                     \E e \in reported :
                        /\ e.text = text
                        /\ e.affectedLevels = levels(text)
                        /\ e.totalCount
                              = Cardinality({y \in current : y.correction = text})

\* the sessions on the teacher's missions created after instant t
SessionsAfter(t) == SumOver(sessions, {u \in DOMAIN sessions : u > t})

\* C27: a non-forced call that finds today's snapshot, with at least 3
\* sessions created after the snapshot was generated, goes to regeneration
C27_ThreeNewSessionsGoStale ==
    [][ \A c \in Callers :
          (/\ pc[c] = "gate" /\ pc'[c] # "gate"
           /\ ref[c] = today(now)
           /\ dailyInsights[ref[c]].exists
           /\ SessionsAfter(dailyInsights[ref[c]].generatedAt) >= 3)
          => pc'[c] = "analytics" ]_vars

\* C28: a generation that ends in the static fallback stores it as the
\* snapshot of the day with the session and struggle totals the call measured;
\* a later non-forced call that finds the stored fallback with fewer than 3
\* sessions and fewer than 5 struggles above those totals is sent to the skip
\* path, where it returns the stored fallback without a generative call and
\* leaves insights and totals of the snapshot as they were
C28_FallbackIsSnapshot ==
    [][ \A c \in Callers :
          /\ (pc[c] = "save" /\ pc'[c] # "save" /\ insights[c] = fallback_insights) =>
                LET new == dailyInsights'[ref[c]]
                IN  /\ new.exists
                    /\ new.insights = fallback_insights
                    /\ new.generatedAt = now
                    /\ new.dataSnapshot.totalSessions = analytics[c].sessionCount
                    /\ new.dataSnapshot.totalStruggles = analytics[c].totalStruggles
          /\ (/\ pc[c] = "gate" /\ pc'[c] # "gate"
              /\ dailyInsights[ref[c]].exists
              /\ dailyInsights[ref[c]].insights = fallback_insights) =>
                LET snap == dailyInsights[ref[c]].dataSnapshot
                    cur == get_teacher_analytics(sessions, items, now)
                IN  (/\ cur.sessionCount - snap.totalSessions < 3
                     /\ cur.totalStruggles - snap.totalStruggles < 5)
                    => (pc'[c] = "skip" /\ ~calledAI'[c])
          /\ (/\ pc[c] = "skip" /\ pc'[c] # "skip"
              /\ dailyInsights[ref[c]].exists
              /\ dailyInsights[ref[c]].insights = fallback_insights) =>
                /\ ~force[c] /\ ~calledAI'[c]
                /\ result'[c].insights = fallback_insights
                /\ ~result'[c].isNew
                /\ dailyInsights'[ref[c]].insights = fallback_insights
                /\ dailyInsights'[ref[c]].dataSnapshot
                      = dailyInsights[ref[c]].dataSnapshot ]_vars

\* C28 witness: after a failed generation stored the fallback with a total of
\* one session, two more sessions were recorded and a non-forced call has
\* returned the stored fallback without a generative call
C28_Witness ==
    /\ pc["c1"] = "done" /\ result["c1"].kind = "skipped"
    /\ result["c1"].insights = fallback_insights
    /\ ~calledAI["c1"]
    /\ dailyInsights[today(now)].exists
    /\ dailyInsights[today(now)].insights = fallback_insights
    /\ dailyInsights[today(now)].dataSnapshot.totalSessions = 1
    /\ get_teacher_analytics(sessions, items, now).sessionCount = 3

\* C29: whenever no create_review_lesson call is in progress, every item
\* listed in a stored lesson has the lesson's id in includedInReviews, was
\* last reviewed at the lesson's createdAt or later, and has a reviewCount of
\* one for each lesson that lists it
C29_LessonsMatchItems ==
    (\A c \in ReviewCallers : rpc[c] \in {"idle", "done"}) =>
        \A i \in ItemIds : \A w \in LessonsOf(i) :
           /\ w \in reviewItems[i].includedInReviews
           /\ reviewItems[i].lastReviewedAt # <<>>
           /\ reviewItems[i].lastReviewedAt[1] >= reviewLessons[w].createdAt
           /\ reviewItems[i].reviewCount = Cardinality(LessonsOf(i))

\* C30: with two create_review_lesson calls of one user interleaved within
\* a week, the lesson of a week is the one document of that week, the
\* reviewCount of an item is at most the number of weekly lessons it was
\* included in (one increase a week), and a mastered item was included in at
\* least 3 distinct weekly lessons
C30_RaceCountsOncePerWeek ==
    \A i \in ItemIds :
       /\ reviewItems[i].includedInReviews
             \subseteq {w \in Weeks : w <= get_week_start(clock)
                                      /\ reviewLessons[w].exists}
       /\ reviewItems[i].reviewCount
             <= Cardinality(reviewItems[i].includedInReviews)
       /\ reviewItems[i].mastered =>
             Cardinality(reviewItems[i].includedInReviews) >= MAX_REVIEW_COUNT

\* C30 witness: both calls have written the lesson of the third week, and an
\* item they both updated is mastered after three weekly lessons
C30_Witness ==
    /\ rpc["r1"] = "done" /\ review["r1"].kind = "created"
    /\ rpc["r2"] = "done" /\ review["r2"].kind = "created"
    /\ week_start["r1"] = 14 /\ week_start["r2"] = 14
    /\ \E i \in ItemIds :
          /\ reviewItems[i].mastered
          /\ reviewItems[i].reviewCount = 3
          /\ reviewItems[i].includedInReviews = {0, 7, 14}

====
